---- MODULE Spec2Model ----
(***************************************************************************)
(* flask-profiler-modern: the measurement-recording pipeline               *)
(* (flask_profiler/flask_profiler.py) and the SQL storage backends         *)
(* (flask_profiler/storage/sql_alchemy.py, flask_profiler/storage/sqlite.py)*)
(*                                                                         *)
(* Two specifications share the storage variables:                         *)
(*   Spec          - profiler instances, endpoint wrapping and measured    *)
(*                   invocations that push records into storage;           *)
(*   SpecRetention - concurrent retention_deletion calls and inserts on    *)
(*                   one Sqlalchemy backend.                               *)
(*                                                                         *)
(* Time is counted in ticks of 10^-(DECIMAL_PLACES+1) seconds, so that the *)
(* 6-place rounding at capture, the 4-place round-up at persistence and    *)
(* the truncation to whole seconds are all visible.                        *)
(***************************************************************************)
EXTENDS Integers, Sequences, FiniteSets, TLC

\* ------------------------------------------------------------------ bounds

\* invocations of wrapped callables over a behaviour
MaxInv == 2
\* profiler states created by init_app over a behaviour
MaxStates == 2
\* clock advances over a behaviour
MaxTicks == 1
\* retention_deletion calls over a behaviour
MaxRetCalls == 2
\* direct inserts over a behaviour of SpecRetention
MaxInserts == 1
\* clock advances between storage operations
MaxRetTicks == 1
\* calls of storage operations over a behaviour of SpecStorage
MaxOps == 3
\* the instants of a timeseries query: half hours / half days from 0 to MaxHalves
MaxHalves == 3
\* stored records a query reads
MaxRecords == 2
\* elements of the args of an inserted measurement
MaxArgs == 2
\* invocations where plain callables and coroutine functions are mixed
MaxCalls == 1

\* --------------------------------------------------------------- constants

\* Measurement.DECIMAL_PLACES
DECIMAL_PLACES == 6
\* Decimal('.0001'): the persisted precision of elapsed
PERSIST_PLACES == 4

RECURSIVE Pow10(_)
Pow10(n) == IF n = 0 THEN 1 ELSE 10 * Pow10(n - 1)

TicksPerSecond == Pow10(DECIMAL_PLACES + 1)
CaptureQuantum == TicksPerSecond \div Pow10(DECIMAL_PLACES)
PersistQuantum == TicksPerSecond \div Pow10(PERSIST_PLACES)

\* a timestamp not taken yet (Measurement.__init__ leaves startedAt at 0, which is
\* an instant of the model's clock, so the model keeps a value of its own)
NoTime == -1
\* None where a _ProfilerState is expected; the states are numbered from 1
NoState == 0

Apps == {"a1", "a2"}
NoCtx == "noctx"
Endpoints == {"e1", "e2"}

\* logical names, as sequences of characters
NameApi == <<"a", "p", "i">>
NameStatic == <<"s", "t", "a", "t", "i", "c">>
Names == {NameApi, NameStatic}
\* the route rule of each endpoint (str(request.url_rule))
Rule(e) == IF e = "e1" THEN NameApi ELSE NameStatic

\* ignore patterns: sequences of atoms, an atom a character or "." (any character)
PatTat == <<"t", ".", "t">>
PatNone == <<"x">>

\* outcomes of the original callable
FuncOutcomes == {[tag |-> "ret", val |-> "r1"], [tag |-> "raise", val |-> "FuncError"]}
NoOutcome == [tag |-> "none", val |-> "none"]
Raise(e) == [tag |-> "raise", val |-> e]
\* asyncio.CancelledError thrown into a coroutine at its await
Cancelled == [tag |-> "cancel", val |-> "CancelledError"]
\* what awaiting the original coroutine can end with
AwaitOutcomes == FuncOutcomes \cup {Cancelled}

\* ------------------------------------------------------------- pure helpers

\* round(x, DECIMAL_PLACES): to the nearest multiple of q, ties to even
RoundHalfEven(x, q) ==
  LET lo == (x \div q) * q
      r  == x - lo
  IN  IF 2 * r < q THEN lo
      ELSE IF 2 * r > q THEN lo + q
      ELSE IF (lo \div q) % 2 = 0 THEN lo ELSE lo + q

\* Decimal.quantize(..., rounding=ROUND_UP): away from zero to a multiple of q
QuantizeUp(x, q) ==
  IF x >= 0 THEN ((x + q - 1) \div q) * q
  ELSE -(((-x + q - 1) \div q) * q)

\* int(x): truncation toward zero to whole seconds
IntSeconds(x) ==
  IF x >= 0 THEN (x \div TicksPerSecond) * TicksPerSecond
  ELSE -(((-x) \div TicksPerSecond) * TicksPerSecond)

\* re.search(pattern, name) for a pattern of literal characters and "."
re_search_at(pattern, name, i) ==
  /\ i + Len(pattern) - 1 <= Len(name)
  /\ \A j \in 1..Len(pattern) : pattern[j] = "." \/ pattern[j] = name[i + j - 1]

re_match(pattern, name) == re_search_at(pattern, name, 1)

re_search(pattern, name) ==
  \E i \in 1..(Len(name) + 1) : re_search_at(pattern, name, i)

is_ignored_prefix(name, conf) ==
  \E k \in 1..Len(conf.ignore) : re_match(conf.ignore[k], name)

\* is_ignored(name, conf)
is_ignored(name, conf) ==
  \E k \in 1..Len(conf.ignore) : re_search(conf.ignore[k], name)

\* ------------------------------------------------------------ configuration

\* app.config["flask_profiler"], as the keys the profiler reads
CfgAbsent ==
  [present |-> FALSE, enabled |-> FALSE, engine |-> "sqlalchemy",
   ignore |-> <<>>, sampling |-> "absent"]
CfgOff ==
  [present |-> TRUE, enabled |-> FALSE, engine |-> "sqlalchemy",
   ignore |-> <<>>, sampling |-> "absent"]
CfgOn ==
  [present |-> TRUE, enabled |-> TRUE, engine |-> "sqlalchemy",
   ignore |-> <<>>, sampling |-> "absent"]
CfgSampled ==
  [present |-> TRUE, enabled |-> TRUE, engine |-> "sqlite",
   ignore |-> <<PatNone, PatTat>>, sampling |-> "callable"]
CfgBadSampler ==
  [present |-> TRUE, enabled |-> TRUE, engine |-> "sqlalchemy",
   ignore |-> <<PatTat>>, sampling |-> "notcallable"]
Configs == {CfgAbsent, CfgOff, CfgOn, CfgSampled, CfgBadSampler}

\* -------------------------------------------------------------------- state

VARIABLES
  config,          \* app -> app.config["flask_profiler"]
  extensions,      \* app -> id of the state in app.extensions["flask-profiler"]
  states,          \* the _ProfilerState objects, in order of creation
  last_state,      \* the module global _last_state
  view_functions,  \* app -> endpoint -> the registered view function
  init_failed,     \* app -> whether the last init_app of it raised
  frames,          \* caller -> the invocation it is in
  ninv,            \* invocations started so far
  skipped,         \* the states whose sampling function has refused an invocation
  now,             \* time.time(), in ticks
  nticks,          \* clock advances so far
  rows,            \* backing store -> the rows of its measurements table
  idseq,           \* backing store -> last id its AUTOINCREMENT / serial gave
  meta,            \* backing store -> last_retention_deletion_time of each metadata row
  is_sqlite,       \* Sqlalchemy.is_sqlite: db_url starts with "sqlite://"
  retention_period_s, \* config["retention_period_s"], in ticks
  rproc,           \* process -> its retention_deletion call
  dblock,          \* holder of the exclusive / row lock of the metadata, 0 if free
  nret,            \* retention_deletion calls started so far
  ninserts,        \* direct inserts done so far
  sproc,           \* thread -> its call of a storage operation
  slock,           \* holder of Sqlite.lock (threading.Lock), 0 if free
  conn,            \* the table as the one connection of the Sqlite backend sees it
  query,           \* the call of filter / getSummary / getTimeseries under study
  qtable           \* the measurements table that call reads, times in whole seconds

recVars == <<config, extensions, states, last_state, view_functions, init_failed,
             frames, ninv, skipped>>
storeVars == <<rows, idseq, meta>>
retVars == <<is_sqlite, retention_period_s, rproc, dblock, nret, ninserts>>
opVars == <<sproc, slock, conn>>
queryVars == <<query, qtable>>
vars == <<recVars, now, nticks, storeVars, retVars, opVars, queryVars>>

\* Python values: int, str and None; tuple and list; dict as its items
PyAtom(t, v) == [t |-> t, v |-> v]
PySeq(t, items) == [t |-> t, items |-> items]
PyDict(pairs) == [t |-> "dict", pairs |-> pairs]
PyNone == PyAtom("none", "None")

\* kwargs.get('elapsed', None): no elapsed floor is given
NoElapsed == -1
\* kwargs.get('method', None)
NoMethod == "none"
\* kwargs.get('name', None)
NoName == <<>>

\* no query is being made; skip and limit at the defaults of getFilters
Query0 == [op |-> "none", backend |-> "none", pc |-> "idle", sort |-> <<>>,
           startedAt |-> 0, endedAt |-> 0, interval |-> "hourly", utcoffset |-> 0,
           elapsed |-> NoElapsed, method |-> NoMethod, name |-> NoName,
           skip |-> 0, limit |-> 100,
           args |-> PyNone, kwargs |-> PyNone, context |-> PyNone,
           profile_stats |-> PyNone, id |-> 0, out |-> <<>>]

\* the threads that invoke wrapped callables
Callers == {"c1"}
DBs == Apps

NoHandle == [db |-> "none", engine |-> "none"]

\* a view function: the original (fn), the wrapper of wrap_http_endpoint (http,
\* bound to state sid) or the wrapper of profile()
VfAbsent == [kind |-> "absent", sid |-> NoState]
VfPlain == [kind |-> "fn", sid |-> NoState]
VfProfile == [kind |-> "profile", sid |-> NoState]

Frame0 ==
  [pc |-> "idle", via |-> "none", sid |-> NoState, is_async |-> FALSE,
   rec |-> FALSE, samp |-> "na", name |-> <<>>, method |-> "none",
   startedAt |-> NoTime, fout |-> NoOutcome, result |-> NoOutcome,
   push |-> "none", inv |-> 0, runs |-> 0]

\* ------------------------------------------------------------------ storage

\* Sqlite: ID Integer PRIMARY KEY AUTOINCREMENT. Sqlalchemy: Column(Integer,
\* primary_key=True), a rowid (largest id + 1) on SQLite and a serial elsewhere.
NextId(db, engine) ==
  IF engine = "sqlalchemy" /\ is_sqlite
    THEN IF rows[db] = {} THEN 1
         ELSE 1 + CHOOSE m \in {r.id : r \in rows[db]} :
                     \A r \in rows[db] : r.id <= m
    ELSE idseq[db] + 1

\* Sqlalchemy.insert: the column values of the new row
SqlalchemyRow(kwds) ==
  [startedAt |-> IntSeconds(kwds.startedAt),
   endedAt   |-> IntSeconds(kwds.endedAt),
   elapsed   |-> IF kwds.elapsed # 0 THEN QuantizeUp(kwds.elapsed, PersistQuantum)
                 ELSE kwds.elapsed,
   method |-> kwds.method, name |-> kwds.name]

\* Sqlite.insert: the column values of the new row
SqliteRow(kwds) ==
  [startedAt |-> kwds.startedAt, endedAt |-> kwds.endedAt, elapsed |-> kwds.elapsed,
   method |-> kwds.method, name |-> kwds.name]

\* the stored row, with the invocation (uid), the recording state (sid) and the
\* captured startedAt kept beside the columns for the properties to refer to
StoredRow(handle, kwds, uid, sid) ==
  LET cols == IF handle.engine = "sqlalchemy" THEN SqlalchemyRow(kwds)
              ELSE SqliteRow(kwds)
  IN  [id |-> NextId(handle.db, handle.engine),
       startedAt |-> cols.startedAt, endedAt |-> cols.endedAt,
       elapsed |-> cols.elapsed, method |-> cols.method, name |-> cols.name,
       uid |-> uid, sid |-> sid, capStartedAt |-> kwds.startedAt]

\* insert(kwds) committed on the handle's backing store
StorageInsert(handle, kwds, uid, sid) ==
  LET row == StoredRow(handle, kwds, uid, sid)
  IN  /\ rows' = [rows EXCEPT ![handle.db] = @ \cup {row}]
      /\ idseq' = [idseq EXCEPT ![handle.db] = IF row.id > @ THEN row.id ELSE @]

\* ----------------------------------------------------------------- recorder

ResolveState_lastFirst(ctx) ==
  IF last_state # NoState THEN last_state
  ELSE IF ctx \in Apps THEN extensions[ctx] ELSE NoState

\* _resolve_state(silent=True): the state of the current application, else the
\* last initialized one, else none
ResolveState(ctx) ==
  IF ctx \in Apps /\ extensions[ctx] # NoState THEN extensions[ctx]
  ELSE last_state

\* collection = LocalProxy(lambda: _resolve_state().collection)
CollectionProxy(ctx) == states[ResolveState(ctx)].collection

WrapHttpEndpoint_rewraps(sid, vf) == [kind |-> "http", sid |-> sid]

\* _ProfilerState.wrap_http_endpoint
WrapHttpEndpoint(sid, vf) ==
  IF vf.kind \in {"http", "profile"} THEN vf
  ELSE [kind |-> "http", sid |-> sid]

MeasureRecords_always(s) == TRUE

\* _ProfilerState.measure: the wrapper records unless the state is disabled
MeasureRecords(s) == s.enabled

SamplingCallable_unchecked(conf) == TRUE

\* _should_sample: callable(sampling_fn), for a configured sampling_function
SamplingCallable(conf) == conf.sampling # "notcallable"

ShouldSample_always(conf, b) == TRUE

\* _ProfilerState._should_sample, for a callable sampling_function returning b
ShouldSample(conf, b) ==
  IF conf.sampling = "absent" THEN TRUE ELSE b

\* Measurement.start
MeasurementStart(t) == t

MeasurementStop_swapped(startedAt, t, name, method) ==
  [name |-> name, method |-> method, startedAt |-> startedAt, endedAt |-> t,
   elapsed |-> RoundHalfEven(startedAt - t, CaptureQuantum)]

\* Measurement.stop and __json__
MeasurementStop(startedAt, t, name, method) ==
  [name |-> name, method |-> method, startedAt |-> startedAt, endedAt |-> t,
   elapsed |-> RoundHalfEven(t - startedAt, CaptureQuantum)]

PersistOnExit_onReturn(fout) == fout.tag = "ret"

\* _record_call: the finally clause runs on return and on raise
PersistOnExit(fout) == TRUE

PersistOnExitAsync_onReturn(fout) == fout.tag = "ret"

\* _record_call_async: the finally clause runs on return, on raise and when
\* CancelledError is thrown into the await
PersistOnExitAsync(fout) == TRUE

\* the frame of an invocation that runs the original callable unrecorded
Unrecorded(via, sid, name, method, inv) ==
  [Frame0 EXCEPT !.pc = "run", !.via = via, !.sid = sid,
                 !.name = name, !.method = method, !.inv = inv]

\* _record_call up to the call of the original callable: the ignore and sampling
\* decisions, then Measurement(...).start()
RecordCallEntry(via, sid, name, method, b, inv) ==
  LET conf == states[sid].conf
      base == Unrecorded(via, sid, name, method, inv)
      \* what the sampling function returned, when it was called
      said == [base EXCEPT !.samp = IF conf.sampling = "callable"
                                      THEN (IF b THEN "true" ELSE "false")
                                      ELSE "na"]
  IN  IF is_ignored(name, conf) THEN base
      ELSE IF ~SamplingCallable(conf)
        THEN [base EXCEPT !.pc = "done", !.result = Raise("ConfigError")]
      ELSE IF ~ShouldSample(conf, b) THEN said
      ELSE [said EXCEPT !.rec = TRUE, !.startedAt = MeasurementStart(now)]

\* _record_call_async up to the await of the original coroutine
RecordCallAsyncEntry(via, sid, name, method, b, inv) ==
  LET conf == states[sid].conf
      awaited == [Unrecorded(via, sid, name, method, inv) EXCEPT !.is_async = TRUE]
      said == [awaited EXCEPT !.samp = IF conf.sampling = "callable"
                                         THEN (IF b THEN "true" ELSE "false")
                                         ELSE "na"]
  IN  IF is_ignored(name, conf) THEN awaited
      ELSE IF ~SamplingCallable(conf)
        THEN [awaited EXCEPT !.pc = "done", !.result = Raise("ConfigError")]
      ELSE IF ~ShouldSample(conf, b) THEN said
      ELSE [said EXCEPT !.rec = TRUE, !.startedAt = MeasurementStart(now)]

\* the original callable run without the recorder: called, or awaited when it
\* is a coroutine function (co)
Bare(via, sid, name, method, inv, co) ==
  [Unrecorded(via, sid, name, method, inv) EXCEPT !.is_async = co]

\* self._record_call(...) or await self._record_call_async(...), as the wrapper
\* of a coroutine function (co) or of a plain one chooses
Recorded(via, sid, name, method, b, inv, co) ==
  IF co THEN RecordCallAsyncEntry(via, sid, name, method, b, inv)
  ELSE RecordCallEntry(via, sid, name, method, b, inv)

CanEnter(c) ==
  /\ frames[c].pc \in {"idle", "done"}
  /\ ninv < MaxInv

\* the wrapper returned by measure(func, name, method) in context ctx is invoked;
\* func is a coroutine function (co) or a plain one
CallMeasured(c, ctx, name, method, b, co) ==
  /\ CanEnter(c)
  /\ LET sid == ResolveState(ctx)
         inv == ninv + 1
     IN  frames' = [frames EXCEPT ![c] =
           IF sid = NoState
             THEN [Unrecorded("measure", sid, name, method, inv)
                     EXCEPT !.pc = "done", !.result = Raise("RuntimeError")]
           ELSE IF ~MeasureRecords(states[sid])
             THEN Bare("measure", sid, name, method, inv, co)
           ELSE Recorded("measure", sid, name, method, b, inv, co)]
  /\ ninv' = ninv + 1
  /\ skipped' = IF frames'[c].samp = "false" THEN skipped \cup {frames'[c].sid} ELSE skipped
  /\ UNCHANGED <<config, extensions, states, last_state, view_functions, init_failed,
                 now, nticks, storeVars, retVars, opVars, queryVars>>

\* a request for endpoint e of app is dispatched to its view function, written
\* as a coroutine function (co) or as a plain one
Request(c, app, e, method, b, co) ==
  /\ CanEnter(c)
  /\ view_functions[app][e].kind # "absent"
  /\ LET vf == view_functions[app][e]
         inv == ninv + 1
         name == Rule(e)
     IN  frames' = [frames EXCEPT ![c] =
           CASE vf.kind = "fn" ->
                  Bare("plain", NoState, name, method, inv, co)
             [] vf.kind = "http" ->
                  IF ~states[vf.sid].enabled
                    THEN Bare("http", vf.sid, name, method, inv, co)
                    ELSE Recorded("http", vf.sid, name, method, b, inv, co)
             [] vf.kind = "profile" ->
                  LET sid == ResolveState(app)
                  IN  IF sid = NoState
                        THEN Bare("profile", NoState, name, method, inv, co)
                      ELSE IF ~states[sid].enabled
                        THEN Bare("profile", sid, name, method, inv, co)
                      ELSE Recorded("profile", sid, name, method, b, inv, co)]
  /\ ninv' = ninv + 1
  /\ skipped' = IF frames'[c].samp = "false" THEN skipped \cup {frames'[c].sid} ELSE skipped
  /\ UNCHANGED <<config, extensions, states, last_state, view_functions, init_failed,
                 now, nticks, storeVars, retVars, opVars, queryVars>>

\* the original callable returns or raises (o); on a recorded invocation the
\* finally clause of _record_call then runs measurement.stop() and
\* self.collection.insert(measurement.__json__()), which succeeds (ok) or raises
RecordCallFinish(c, o, ok) ==
  /\ frames[c].pc = "run"
  /\ LET f == [frames[c] EXCEPT !.pc = "done", !.fout = o, !.runs = @ + 1]
         handle == states[f.sid].collection
         kwds == MeasurementStop(f.startedAt, now, f.name, f.method)
     IN  IF ~(f.rec /\ PersistOnExit(o))
           THEN /\ frames' = [frames EXCEPT ![c] = [f EXCEPT !.result = o]]
                /\ UNCHANGED storeVars
         ELSE IF handle = NoHandle
           THEN /\ frames' = [frames EXCEPT ![c] =
                     [f EXCEPT !.push = "failed", !.result = Raise("AttributeError")]]
                /\ UNCHANGED storeVars
         ELSE IF ok
           THEN /\ StorageInsert(handle, kwds, f.inv, f.sid)
                /\ meta' = meta
                /\ frames' = [frames EXCEPT ![c] =
                     [f EXCEPT !.push = "ok", !.result = o]]
         ELSE /\ frames' = [frames EXCEPT ![c] =
                     [f EXCEPT !.push = "failed", !.result = Raise("StorageError")]]
              /\ UNCHANGED storeVars
  /\ UNCHANGED <<config, extensions, states, last_state, view_functions, init_failed,
                 ninv, skipped, now, nticks, retVars, opVars, queryVars>>

\* a plain callable, called by the wrapper, returns or raises
FuncReturns(c, o, ok) ==
  /\ ~frames[c].is_async
  /\ RecordCallFinish(c, o, ok)

\* the await of the original coroutine ends: it returned, it raised, or the
\* task was cancelled and CancelledError is thrown at the await (o); on a
\* recorded invocation the finally clause of _record_call_async then runs
\* measurement.stop() and the blocking self.collection.insert(...)
CoroutineReturns(c, o, ok) ==
  /\ frames[c].pc = "run"
  /\ frames[c].is_async
  /\ LET f == [frames[c] EXCEPT !.pc = "done", !.fout = o, !.runs = @ + 1]
         handle == states[f.sid].collection
         kwds == MeasurementStop(f.startedAt, now, f.name, f.method)
     IN  IF ~(f.rec /\ PersistOnExitAsync(o))
           THEN /\ frames' = [frames EXCEPT ![c] = [f EXCEPT !.result = o]]
                /\ UNCHANGED storeVars
         ELSE IF handle = NoHandle
           THEN /\ frames' = [frames EXCEPT ![c] =
                     [f EXCEPT !.push = "failed", !.result = Raise("AttributeError")]]
                /\ UNCHANGED storeVars
         ELSE IF ok
           THEN /\ StorageInsert(handle, kwds, f.inv, f.sid)
                /\ meta' = meta
                /\ frames' = [frames EXCEPT ![c] =
                     [f EXCEPT !.push = "ok", !.result = o]]
         ELSE /\ frames' = [frames EXCEPT ![c] =
                     [f EXCEPT !.push = "failed", !.result = Raise("StorageError")]]
              /\ UNCHANGED storeVars
  /\ UNCHANGED <<config, extensions, states, last_state, view_functions, init_failed,
                 ninv, skipped, now, nticks, retVars, opVars, queryVars>>

\* ---------------------------------------------------------------- lifecycle

\* The applications are set up (routes registered, profilers initialized) before
\* they serve: Flask refuses a route registered after the first request.
SettingUp == ninv = 0

LoadConfig_defaults(app) == TRUE

\* _ProfilerState._load_config: whether app.config holds "flask_profiler" or
\* "FLASK_PROFILER"; it raises when neither key is there
LoadConfig(app) == config[app].present

WrapAppEndpoints_everyApp(app, sid) ==
  [a \in Apps |-> [e \in Endpoints |->
     IF view_functions[a][e].kind = "absent" THEN view_functions[a][e]
     ELSE WrapHttpEndpoint(sid, view_functions[a][e])]]

\* _ProfilerState._wrap_app_endpoints: app.view_functions after the state sid
\* has wrapped every endpoint of its application
WrapAppEndpoints(app, sid) ==
  [view_functions EXCEPT ![app] =
     [e \in Endpoints |->
        IF @[e].kind = "absent" THEN @[e]
        ELSE WrapHttpEndpoint(sid, @[e])]]

\* _ProfilerState.__init__ and Profiler.init_app
InitApp(app) ==
  /\ SettingUp
  /\ Len(states) < MaxStates
  /\ IF ~LoadConfig(app)
       THEN /\ init_failed' = [init_failed EXCEPT ![app] = TRUE]
            /\ UNCHANGED <<extensions, states, last_state, view_functions>>
       ELSE LET sid == Len(states) + 1
                conf == config[app]
                st == [app |-> app, conf |-> conf, enabled |-> conf.enabled,
                       collection |-> IF conf.enabled
                                        THEN [db |-> app, engine |-> conf.engine]
                                        ELSE NoHandle]
            IN  /\ states' = Append(states, st)
                /\ view_functions' =
                     IF st.enabled THEN WrapAppEndpoints(app, sid)
                     ELSE view_functions
                /\ extensions' = [extensions EXCEPT ![app] = sid]
                /\ last_state' = sid
                /\ init_failed' = [init_failed EXCEPT ![app] = FALSE]
  /\ UNCHANGED <<config, frames, ninv, skipped, now, nticks, storeVars, retVars, opVars, queryVars>>

\* @app.route for endpoint e2 of the first application, bare, under @profile() or
\* under @wrapHttpEndpoint (resolved in context ctx)
RegisterRoute(app, deco, ctx) ==
  /\ SettingUp
  /\ app = "a1"
  /\ view_functions[app]["e2"].kind = "absent"
  /\ deco = "wrap" => ResolveState(ctx) # NoState
  /\ view_functions' = [view_functions EXCEPT ![app]["e2"] =
       CASE deco = "none" -> VfPlain
         [] deco = "profile" -> VfProfile
         [] deco = "wrap" -> WrapHttpEndpoint(ResolveState(ctx), VfPlain)]
  /\ UNCHANGED <<config, extensions, states, last_state, init_failed, frames, ninv,
                 skipped, now, nticks, storeVars, retVars, opVars, queryVars>>

\* the original callable of invocation c takes d more ticks of wall-clock time
CallTakesTime(c, d) ==
  /\ frames[c].pc = "run"
  /\ nticks < MaxTicks
  /\ now' = now + d
  /\ nticks' = nticks + 1
  /\ UNCHANGED <<recVars, opVars, queryVars, storeVars, retVars>>

RecDeltas == {15}

Init ==
  /\ config \in {cf \in [Apps -> Configs] : cf["a2"] = CfgOn}
  /\ extensions = [a \in Apps |-> NoState]
  /\ states = <<>>
  /\ last_state = NoState
  /\ view_functions = [a \in Apps |-> [e \in Endpoints |->
                         IF e = "e1" THEN VfPlain ELSE VfAbsent]]
  /\ init_failed = [a \in Apps |-> FALSE]
  /\ frames = [c \in Callers |-> Frame0]
  /\ ninv = 0
  /\ skipped = {}
  /\ now = 0
  /\ nticks = 0
  /\ rows = [d \in DBs |-> {}]
  /\ idseq = [d \in DBs |-> 0]
  /\ meta = [d \in DBs |-> <<0>>]
  /\ is_sqlite = TRUE
  /\ retention_period_s = 0
  /\ rproc = <<>>
  /\ dblock = 0
  /\ nret = 0
  /\ ninserts = 0
  /\ sproc = <<>>
  /\ slock = 0
  /\ conn = {}
  /\ query = Query0
  /\ qtable = {}

Next ==
  \/ \E a \in Apps : InitApp(a)
  \/ \E a \in Apps, deco \in {"none", "profile", "wrap"}, ctx \in Apps \cup {NoCtx} :
       RegisterRoute(a, deco, ctx)
  \/ \E c \in Callers, ctx \in Apps \cup {NoCtx}, n \in Names, b \in BOOLEAN :
       CallMeasured(c, ctx, n, "call", b, FALSE)
  \/ \E c \in Callers, a \in Apps, e \in Endpoints, b \in BOOLEAN :
       Request(c, a, e, "GET", b, FALSE)
  \/ \E c \in Callers, o \in FuncOutcomes, ok \in BOOLEAN : FuncReturns(c, o, ok)
  \/ \E c \in Callers, d \in RecDeltas : CallTakesTime(c, d)

\* plain callables only
Spec == Init /\ [][Next]_vars

\* the wrapper returned by measure is invoked, for a plain callable or for a
\* coroutine function
CallEither(c, ctx, n, b, co) ==
  /\ ninv < MaxCalls
  /\ CallMeasured(c, ctx, n, "call", b, co)

\* a request is dispatched to a view function written as a plain callable or
\* as a coroutine function
RequestEither(c, a, e, b, co) ==
  /\ ninv < MaxCalls
  /\ Request(c, a, e, "GET", b, co)

\* plain callables and coroutine functions, the latter returning, raising or
\* cancelled at their await
NextAsync ==
  \/ \E a \in Apps : InitApp(a)
  \/ \E a \in Apps, deco \in {"none", "profile", "wrap"}, ctx \in Apps \cup {NoCtx} :
       RegisterRoute(a, deco, ctx)
  \/ \E c \in Callers, ctx \in Apps \cup {NoCtx}, n \in Names, b, co \in BOOLEAN :
       CallEither(c, ctx, n, b, co)
  \/ \E c \in Callers, a \in Apps, e \in Endpoints, b, co \in BOOLEAN :
       RequestEither(c, a, e, b, co)
  \/ \E c \in Callers, o \in FuncOutcomes, ok \in BOOLEAN : FuncReturns(c, o, ok)
  \/ \E c \in Callers, o \in AwaitOutcomes, ok \in BOOLEAN : CoroutineReturns(c, o, ok)
  \/ \E c \in Callers, d \in RecDeltas : CallTakesTime(c, d)

SpecAsync == Init /\ [][NextAsync]_vars

\* ---------------------------------------------------------------- retention
\* Sqlalchemy.retention_deletion, called by several processes on one database,
\* beside inserts of the recorder; each statement of a call is one step.

RetDb == "a1"
RetHandle == [db |-> RetDb, engine |-> "sqlalchemy"]
HalfSecond == TicksPerSecond \div 2
RetDeltas == {HalfSecond, 4 * HalfSecond}
RetentionPeriods == {0, 2 * TicksPerSecond}

Call0 == [pc |-> "begin", cur |-> NoTime, last |-> NoTime, out |-> "none",
          upd |-> NoTime, del |-> {}, old |-> {}, failedAt |-> "none", with |-> {}]

BufferElapsed_always(last, period, current_time) == TRUE

\* float(last_retention_deletion_time) + previous_clean_time_buffer < current_time
BufferElapsed(last, period, current_time) == 4 * last + period < 4 * current_time

\* Measurements.startedAt + retention_period_s < current_time
Expired(r, period, current_time) == r.startedAt + period < current_time

TxRollback_keepsUpdate(committed, upd) ==
  IF upd = NoTime THEN committed ELSE [i \in DOMAIN committed |-> upd]

\* LockableTransaction.rollback: the metadata rows after ROLLBACK
TxRollback(committed, upd) == committed

\* the calls that have not returned
Active == {p \in DOMAIN rproc : rproc[p].pc # "done"}

\* a process calls retention_deletion(): the session is opened
RetentionCall ==
  /\ nret < MaxRetCalls
  /\ nret' = nret + 1
  /\ rproc' = Append(rproc, [Call0 EXCEPT !.with = Active])
  /\ UNCHANGED <<recVars, opVars, queryVars, now, nticks, storeVars, is_sqlite, retention_period_s,
                 dblock, ninserts>>

\* LockableTransaction.begin: BEGIN EXCLUSIVE takes the database lock on SQLite
\* and waits while another connection holds it; session.begin() elsewhere
LockableBegin(p) ==
  /\ rproc[p].pc = "begin"
  /\ is_sqlite => dblock = 0
  /\ dblock' = IF is_sqlite THEN p ELSE dblock
  /\ rproc' = [rproc EXCEPT ![p].pc = "select"]
  /\ UNCHANGED <<recVars, opVars, queryVars, now, nticks, storeVars, is_sqlite, retention_period_s,
                 nret, ninserts>>

\* BEGIN EXCLUSIVE gives up after the busy timeout: the error leaves
\* retention_deletion, whose try block has not been entered
LockableBeginBusy(p) ==
  /\ rproc[p].pc = "begin"
  /\ is_sqlite /\ dblock # 0
  /\ rproc' = [rproc EXCEPT ![p].pc = "done", ![p].out = "raise"]
  /\ UNCHANGED <<recVars, opVars, queryVars, now, nticks, storeVars, is_sqlite, retention_period_s,
                 dblock, nret, ninserts>>

\* the except branch: rollback of the transaction, return False
Rollback(p, at) ==
  /\ rproc' = [rproc EXCEPT ![p].pc = "done", ![p].out = "false",
                            ![p].failedAt = at, ![p].upd = NoTime, ![p].del = {}]
  /\ dblock' = IF dblock = p THEN 0 ELSE dblock
  /\ meta' = [meta EXCEPT ![RetDb] = TxRollback(@, rproc[p].upd)]
  /\ UNCHANGED <<rows, idseq>>

\* SELECT last_retention_deletion_time FOR UPDATE NOWAIT SKIP LOCKED, then
\* current_time = time.time() and the test of the quarter-period buffer
RetentionSelect(p) ==
  /\ rproc[p].pc = "select"
  /\ IF ~is_sqlite /\ dblock # 0
       THEN Rollback(p, "none")
     ELSE IF Len(meta[RetDb]) # 1
       THEN Rollback(p, "none")
     ELSE LET last == meta[RetDb][1]
              seen == [rproc[p] EXCEPT !.last = last, !.cur = now,
                         !.old = {r.uid : r \in {x \in rows[RetDb] :
                                     Expired(x, retention_period_s, now)}}]
          IN  IF BufferElapsed(last, retention_period_s, now)
                THEN /\ rproc' = [rproc EXCEPT ![p] = [seen EXCEPT !.pc = "update"]]
                     /\ dblock' = p
                     /\ UNCHANGED storeVars
                ELSE /\ rproc' = [rproc EXCEPT ![p] =
                                    [seen EXCEPT !.pc = "done", !.out = "false"]]
                     /\ dblock' = IF is_sqlite THEN 0 ELSE dblock
                     /\ UNCHANGED storeVars
  /\ UNCHANGED <<recVars, opVars, queryVars, now, nticks, is_sqlite, retention_period_s, nret, ninserts>>

\* Update(Metadata).values(last_retention_deletion_time=current_time)
RetentionUpdate(p) ==
  /\ rproc[p].pc = "update"
  /\ rproc' = [rproc EXCEPT ![p].pc = "delete", ![p].upd = rproc[p].cur]
  /\ UNCHANGED <<recVars, opVars, queryVars, now, nticks, storeVars, is_sqlite, retention_period_s,
                 dblock, nret, ninserts>>

\* Delete(Measurements).where(startedAt + retention_period_s < current_time)
RetentionDelete(p) ==
  /\ rproc[p].pc = "delete"
  /\ rproc' = [rproc EXCEPT ![p].pc = "commit",
                 ![p].del = {r.id : r \in {x \in rows[RetDb] :
                               Expired(x, retention_period_s, rproc[p].cur)}}]
  /\ UNCHANGED <<recVars, opVars, queryVars, now, nticks, storeVars, is_sqlite, retention_period_s,
                 dblock, nret, ninserts>>

\* locked_transaction.commit(); session.commit(); return True
RetentionCommit(p) ==
  /\ rproc[p].pc = "commit"
  /\ meta' = [meta EXCEPT ![RetDb] = [i \in DOMAIN @ |-> rproc[p].upd]]
  /\ rows' = [rows EXCEPT ![RetDb] = {r \in @ : r.id \notin rproc[p].del}]
  /\ dblock' = 0
  /\ rproc' = [rproc EXCEPT ![p].pc = "done", ![p].out = "true"]
  /\ UNCHANGED <<recVars, opVars, queryVars, now, nticks, idseq, is_sqlite, retention_period_s,
                 nret, ninserts>>

\* a statement of the try block fails
RetentionFail(p) ==
  /\ rproc[p].pc \in {"select", "update", "delete", "commit"}
  /\ Rollback(p, rproc[p].pc)
  /\ UNCHANGED <<recVars, opVars, queryVars, now, nticks, is_sqlite, retention_period_s, nret, ninserts>>

\* Sqlalchemy.insert of a measurement captured now, from another session; on
\* SQLite it waits while a retention_deletion holds the exclusive lock
DirectInsert ==
  /\ ninserts < MaxInserts
  /\ is_sqlite => dblock = 0
  /\ StorageInsert(RetHandle, MeasurementStop(MeasurementStart(now), now, NameApi, "GET"),
                   ninserts + 1, NoState)
  /\ ninserts' = ninserts + 1
  /\ UNCHANGED <<recVars, opVars, queryVars, now, nticks, meta, is_sqlite, retention_period_s, rproc,
                 dblock, nret>>

\* time passes
ClockAdvances(d) ==
  /\ nticks < MaxRetTicks
  /\ nticks' = nticks + 1
  /\ now' = now + d
  /\ UNCHANGED <<recVars, opVars, queryVars, storeVars, retVars>>

InitRetention ==
  /\ config = [a \in Apps |-> CfgOn]
  /\ extensions = [a \in Apps |-> NoState]
  /\ states = <<>>
  /\ last_state = NoState
  /\ view_functions = [a \in Apps |-> [e \in Endpoints |->
                         IF e = "e1" THEN VfPlain ELSE VfAbsent]]
  /\ init_failed = [a \in Apps |-> FALSE]
  /\ frames = [c \in Callers |-> Frame0]
  /\ ninv = 0
  /\ skipped = {}
  /\ now = HalfSecond
  /\ nticks = 0
  /\ rows = [d \in DBs |-> {}]
  /\ idseq = [d \in DBs |-> 0]
  /\ meta = [d \in DBs |-> <<0>>]
  /\ is_sqlite \in BOOLEAN
  /\ retention_period_s \in RetentionPeriods
  /\ rproc = <<>>
  /\ dblock = 0
  /\ nret = 0
  /\ ninserts = 0
  /\ sproc = <<>>
  /\ slock = 0
  /\ conn = {}
  /\ query = Query0
  /\ qtable = {}

NextRetention ==
  \/ RetentionCall
  \/ \E p \in DOMAIN rproc : LockableBegin(p)
  \/ \E p \in DOMAIN rproc : LockableBeginBusy(p)
  \/ \E p \in DOMAIN rproc : RetentionSelect(p)
  \/ \E p \in DOMAIN rproc : RetentionUpdate(p)
  \/ \E p \in DOMAIN rproc : RetentionDelete(p)
  \/ \E p \in DOMAIN rproc : RetentionCommit(p)
  \/ \E p \in DOMAIN rproc : RetentionFail(p)
  \/ DirectInsert
  \/ \E d \in RetDeltas : ClockAdvances(d)

SpecRetention == InitRetention /\ [][NextRetention]_vars

\* ------------------------------------------------------- storage operations
\* insert, the reads, delete, truncate and create_database of one backend, called
\* by several threads; each use of the connection is one step.  On the Sqlite
\* backend all threads share one connection behind Sqlite.lock; on the Sqlalchemy
\* backend every call opens a session of its own.

OpHandle == [db |-> RetDb, engine |-> config[RetDb].engine]
OnSqliteBackend == OpHandle.engine = "sqlite"

\* "read" stands for filter, get, getSummary, getTimeseries, getMethodDistribution
SqliteOps == {"insert", "read", "delete", "truncate"}
SqlalchemyOps == SqliteOps \cup {"create_database"}

Op0 == [op |-> "none", pc |-> "start", arg |-> 0, cnt |-> 0, out |-> "none",
        seen |-> {}, failed |-> FALSE]

\* the tables exist: the constructor of the backend has run in some process
Ready ==
  \/ OnSqliteBackend
  \/ Len(meta[RetDb]) > 0
  \/ \E t \in DOMAIN sproc : /\ sproc[t].op = "create_database"
                             /\ sproc[t].pc = "done" /\ sproc[t].out # "raise"

UsesLock_writersOnly(op) == op \in {"insert", "delete", "truncate"}

\* Sqlite: every operation runs its statements inside "with self.lock"
UsesLock(op) == TRUE

\* leaving "with self.lock", by return or by exception
LockRelease(t) == IF slock = t THEN 0 ELSE slock

\* the measurement a thread hands to insert
OpKwds == MeasurementStop(MeasurementStart(now), now, NameApi, "GET")

\* a thread calls an operation of the backend
OpCall(op, id) ==
  /\ Len(sproc) < MaxOps
  /\ op \in IF OnSqliteBackend THEN SqliteOps ELSE SqlalchemyOps
  /\ op # "create_database" => Ready
  /\ IF op = "delete" THEN id \in 1..MaxOps ELSE id = 0
  /\ sproc' = Append(sproc, [Op0 EXCEPT !.op = op, !.arg = id])
  /\ UNCHANGED <<recVars, queryVars, now, nticks, storeVars, retVars, slock, conn>>

\* Sqlite: with self.lock
LockAcquire(t) ==
  /\ OnSqliteBackend
  /\ sproc[t].pc = "start"
  /\ UsesLock(sproc[t].op) => slock = 0
  /\ slock' = IF UsesLock(sproc[t].op) THEN t ELSE slock
  /\ sproc' = [sproc EXCEPT ![t].pc = "execute"]
  /\ UNCHANGED <<recVars, queryVars, now, nticks, storeVars, retVars, conn>>

\* Sqlite: self.connection.execute(sql, ...) of the operation; a failure leaves
\* the with block as an exception
SqliteExecute(t, ok) ==
  /\ OnSqliteBackend
  /\ sproc[t].pc = "execute"
  /\ LET c == sproc[t]
     IN  IF ~ok
           THEN /\ sproc' = [sproc EXCEPT ![t].pc = "done", ![t].out = "raise",
                               ![t].failed = TRUE]
                /\ slock' = LockRelease(t)
                /\ UNCHANGED <<conn, idseq>>
         ELSE IF c.op = "insert"
           THEN LET row == StoredRow(OpHandle, OpKwds, t, NoState)
                IN  /\ conn' = conn \cup {row}
                    /\ idseq' = [idseq EXCEPT ![RetDb] = row.id]
                    /\ sproc' = [sproc EXCEPT ![t].pc = "commit"]
                    /\ slock' = slock
         ELSE IF c.op = "delete"
           THEN /\ conn' = {r \in conn : r.id # c.arg}
                /\ sproc' = [sproc EXCEPT ![t].pc = "commit",
                               ![t].cnt = Cardinality({r \in conn : r.id = c.arg})]
                /\ UNCHANGED <<slock, idseq>>
         ELSE IF c.op = "truncate"
           THEN /\ conn' = {}
                /\ sproc' = [sproc EXCEPT ![t].pc = "commit",
                               ![t].cnt = Cardinality(conn)]
                /\ UNCHANGED <<slock, idseq>>
         ELSE /\ sproc' = [sproc EXCEPT ![t].pc = "done", ![t].out = "ok",
                             ![t].seen = {r.uid : r \in conn}]
              /\ slock' = LockRelease(t)
              /\ UNCHANGED <<conn, idseq>>
  /\ UNCHANGED <<recVars, queryVars, now, nticks, rows, meta, retVars>>

\* Sqlite: self.connection.commit() commits all the connection has pending; when
\* it fails the exception leaves the with block and nothing is rolled back
SqliteCommit(t, ok) ==
  /\ OnSqliteBackend
  /\ sproc[t].pc = "commit"
  /\ slock' = LockRelease(t)
  /\ IF ok
       THEN /\ rows' = [rows EXCEPT ![RetDb] = conn]
            /\ sproc' = [sproc EXCEPT ![t].pc = "done",
                           ![t].out = IF sproc[t].op = "insert" THEN "ok"
                                      ELSE IF sproc[t].cnt > 0 THEN "true" ELSE "false"]
       ELSE /\ rows' = rows
            /\ sproc' = [sproc EXCEPT ![t].pc = "done", ![t].out = "raise",
                           ![t].failed = TRUE]
  /\ UNCHANGED <<recVars, queryVars, now, nticks, idseq, meta, retVars, conn>>

\* Sqlalchemy insert, delete, truncate: the statements and session.commit() of
\* one session; except: session.rollback(), then raise (insert) or return False
SaWrite(t, ok) ==
  /\ ~OnSqliteBackend
  /\ sproc[t].pc = "start"
  /\ sproc[t].op \in {"insert", "delete", "truncate"}
  /\ ok => (is_sqlite => dblock = 0)
  /\ LET c == sproc[t]
     IN  IF ~ok
           THEN /\ sproc' = [sproc EXCEPT ![t].pc = "done", ![t].failed = TRUE,
                               ![t].out = IF c.op = "insert" THEN "raise" ELSE "false"]
                /\ UNCHANGED storeVars
         ELSE IF c.op = "insert"
           THEN /\ StorageInsert(OpHandle, OpKwds, t, NoState)
                /\ meta' = meta
                /\ sproc' = [sproc EXCEPT ![t].pc = "done", ![t].out = "ok"]
         ELSE IF c.op = "delete"
           THEN /\ rows' = [rows EXCEPT ![RetDb] = {r \in @ : r.id # c.arg}]
                /\ sproc' = [sproc EXCEPT ![t].pc = "done", ![t].out = "true"]
                /\ UNCHANGED <<idseq, meta>>
         ELSE /\ rows' = [rows EXCEPT ![RetDb] = {}]
              /\ meta' = [meta EXCEPT ![RetDb] = <<0>>]
              /\ sproc' = [sproc EXCEPT ![t].pc = "done", ![t].out = "true"]
              /\ UNCHANGED idseq
  /\ UNCHANGED <<recVars, queryVars, now, nticks, retVars, slock, conn>>

\* Sqlalchemy reads: a query of a session of its own
SaRead(t) ==
  /\ ~OnSqliteBackend
  /\ sproc[t].pc = "start"
  /\ sproc[t].op = "read"
  /\ sproc' = [sproc EXCEPT ![t].pc = "done", ![t].out = "ok",
                 ![t].seen = {r.uid : r \in rows[RetDb]}]
  /\ UNCHANGED <<recVars, queryVars, now, nticks, storeVars, retVars, slock, conn>>

\* create_database: begin_lockable_transaction (BEGIN EXCLUSIVE on a SQLite URL)
CdBegin(t) ==
  /\ sproc[t].op = "create_database" /\ sproc[t].pc = "start"
  /\ is_sqlite => dblock = 0
  /\ dblock' = IF is_sqlite THEN t ELSE dblock
  /\ sproc' = [sproc EXCEPT ![t].pc = "select"]
  /\ UNCHANGED <<recVars, queryVars, now, nticks, storeVars, is_sqlite, retention_period_s,
                 rproc, nret, ninserts, slock, conn>>

\* create_database: BEGIN EXCLUSIVE gives up after the busy timeout
CdBeginBusy(t) ==
  /\ sproc[t].op = "create_database" /\ sproc[t].pc = "start"
  /\ is_sqlite /\ dblock # 0
  /\ sproc' = [sproc EXCEPT ![t].pc = "done", ![t].out = "raise", ![t].failed = TRUE]
  /\ UNCHANGED <<recVars, queryVars, now, nticks, storeVars, retVars, slock, conn>>

\* create_database: SELECT last_retention_deletion_time FOR UPDATE NOWAIT and
\* scalar_one_or_none(); with a row present the with block commits and ends
CdSelect(t) ==
  /\ sproc[t].op = "create_database" /\ sproc[t].pc = "select"
  /\ IF Len(meta[RetDb]) = 0
       THEN /\ sproc' = [sproc EXCEPT ![t].pc = "add"]
            /\ dblock' = dblock
       ELSE /\ sproc' = [sproc EXCEPT ![t].pc = "done",
                           ![t].out = IF Len(meta[RetDb]) = 1 THEN "ok" ELSE "raise"]
            /\ dblock' = IF dblock = t THEN 0 ELSE dblock
  /\ UNCHANGED <<recVars, queryVars, now, nticks, storeVars, is_sqlite, retention_period_s,
                 rproc, nret, ninserts, slock, conn>>

\* create_database: session.add(Metadata(last_retention_deletion_time=0)) and the
\* commit; except: rollback, return False
CdAdd(t, ok) ==
  /\ sproc[t].op = "create_database" /\ sproc[t].pc = "add"
  /\ meta' = IF ok THEN [meta EXCEPT ![RetDb] = Append(@, 0)] ELSE meta
  /\ sproc' = [sproc EXCEPT ![t].pc = "done", ![t].out = IF ok THEN "ok" ELSE "false",
                 ![t].failed = ~ok]
  /\ dblock' = IF dblock = t THEN 0 ELSE dblock
  /\ UNCHANGED <<recVars, queryVars, now, nticks, rows, idseq, is_sqlite, retention_period_s,
                 rproc, nret, ninserts, slock, conn>>

InitStorage ==
  /\ config \in {cf \in [Apps -> {CfgOn, CfgSampled}] : cf["a2"] = CfgOn}
  /\ extensions = [a \in Apps |-> NoState]
  /\ states = <<>>
  /\ last_state = NoState
  /\ view_functions = [a \in Apps |-> [e \in Endpoints |->
                         IF e = "e1" THEN VfPlain ELSE VfAbsent]]
  /\ init_failed = [a \in Apps |-> FALSE]
  /\ frames = [c \in Callers |-> Frame0]
  /\ ninv = 0
  /\ skipped = {}
  /\ now = HalfSecond
  /\ nticks = 0
  /\ rows = [d \in DBs |-> {}]
  /\ idseq = [d \in DBs |-> 0]
  /\ meta \in {[d \in DBs |-> m] : m \in IF config[RetDb].engine = "sqlite"
                                          THEN {<<>>} ELSE {<<>>, <<0>>}}
  /\ is_sqlite \in IF config[RetDb].engine = "sqlite" THEN {TRUE} ELSE BOOLEAN
  /\ retention_period_s = 0
  /\ rproc = <<>>
  /\ dblock = 0
  /\ nret = 0
  /\ ninserts = 0
  /\ sproc = <<>>
  /\ slock = 0
  /\ conn = {}
  /\ query = Query0
  /\ qtable = {}

NextStorage ==
  \/ \E op \in SqlalchemyOps, id \in 0..MaxOps : OpCall(op, id)
  \/ \E t \in DOMAIN sproc : LockAcquire(t)
  \/ \E t \in DOMAIN sproc, ok \in BOOLEAN : SqliteExecute(t, ok)
  \/ \E t \in DOMAIN sproc, ok \in BOOLEAN : SqliteCommit(t, ok)
  \/ \E t \in DOMAIN sproc, ok \in BOOLEAN : SaWrite(t, ok)
  \/ \E t \in DOMAIN sproc : SaRead(t)
  \/ \E t \in DOMAIN sproc : CdBegin(t)
  \/ \E t \in DOMAIN sproc : CdBeginBusy(t)
  \/ \E t \in DOMAIN sproc : CdSelect(t)
  \/ \E t \in DOMAIN sproc, ok \in BOOLEAN : CdAdd(t, ok)

SpecStorage == InitStorage /\ [][NextStorage]_vars

\* ------------------------------------------------------------------- queries
\* filter, getSummary and getTimeseries as functions of their parameters and of
\* the stored records.  A string is a text with or without surrounding blanks;
\* the sort parameter is given by its comma-separated pieces.

Lit(t) == [pad |-> FALSE, text |-> t]
Padded(t) == [pad |-> TRUE, text |-> t]

\* str.strip()
strip(s) == [s EXCEPT !.pad = FALSE]

\* str.upper()
upper(s) ==
  [s EXCEPT !.text = CASE @ \in {"desc", "DESC"} -> "DESC"
                       [] @ \in {"asc", "ASC"} -> "ASC"
                       [] @ = "sideways" -> "SIDEWAYS"
                       [] OTHER -> @]

ALLOWED_SORT_MAIN == {"ID", "startedAt", "endedAt", "elapsed", "method", "name"}
ALLOWED_SORT_SUMMARY == {"method", "name", "count", "minElapsed", "maxElapsed",
                         "avgElapsed"}

\* the mapped columns of Measurements
MeasurementsColumns == {"id", "startedAt", "endedAt", "elapsed", "method", "args",
                        "kwargs", "name", "context", "profileStats"}

\* the sort parameter was not given
NoSort == <<Lit("absent")>>

\* getFilters: filters["sort"] = kwargs.get('sort', "endedAt,desc").split(",")
getFiltersSort(sort) == IF sort = NoSort THEN <<Lit("endedAt"), Lit("desc")>> ELSE sort

Ordered(field, direction) == [raised |-> "none", field |-> field, direction |-> direction]
Raised(e) == [raised |-> e, field |-> "none", direction |-> "none"]

\* Sqlite._sanitize_sort
sanitize_sort(requested, allowed, default_field, default_dir) ==
  LET field0 == IF Len(requested) > 0 THEN strip(requested[1]) ELSE Lit(default_field)
      direction0 == upper(IF Len(requested) > 1 THEN strip(requested[2])
                                                ELSE Lit(default_dir))
      field == IF field0 \notin {Lit(a) : a \in allowed} THEN Lit(default_field)
                                                          ELSE field0
      direction == IF direction0 \notin {Lit("ASC"), Lit("DESC")} THEN Lit(default_dir)
                                                                   ELSE direction0
  IN  Ordered(field.text, direction.text)

\* getattr(Measurements, name).desc() / .asc()
MeasurementsAttr(name, direction) ==
  IF name \in {Lit(c) : c \in MeasurementsColumns} THEN Ordered(name.text, direction)
                                                    ELSE Raised("AttributeError")

\* Sqlalchemy.filter: the order_by of the query
SqlalchemyFilterOrder(sort) ==
  IF Len(sort) < 2 THEN Raised("IndexError")
  ELSE MeasurementsAttr(sort[1], IF sort[2] = Lit("desc") THEN "DESC" ELSE "ASC")

\* Sqlalchemy.getSummary: the order_by of the query
SqlalchemySummaryOrder(sort) ==
  IF Len(sort) < 2 THEN Raised("IndexError")
  ELSE LET direction == IF sort[2] = Lit("desc") THEN "DESC" ELSE "ASC"
       IN  IF sort[1] \in {Lit(a) : a \in {"count", "minElapsed", "maxElapsed",
                                            "avgElapsed"}}
             THEN Ordered(sort[1].text, direction)
             ELSE MeasurementsAttr(sort[1], direction)

\* interval = 3600 * 24 if kwds.get('interval') == "daily" else 3600
IntervalSeconds(interval) == IF interval = "daily" THEN 3600 * 24 ELSE 3600

\* formatDate(timestamp, dateFormat): the label of the hour / day of local time
\* that holds the timestamp, here the number of that hour / day
formatDate(timestamp, q) == (timestamp + q.utcoffset) \div IntervalSeconds(q.interval)

\* strftime(dateFormat, datetime(startedAt, 'unixepoch')): the hour / day of UTC
strftimeUnixepoch(timestamp, q) == timestamp \div IntervalSeconds(q.interval)

\* datetime.strptime(label, dateFormat).timestamp(): the local start of the bucket
strptimeTimestamp(label, q) == label * IntervalSeconds(q.interval) - q.utcoffset

\* WHERE endedAt <= ? AND startedAt >= ?
InQueryWindow(q) == {r \in qtable : r.endedAt <= q.endedAt /\ r.startedAt >= q.startedAt}

\* for i in range(int(startedAt), int(endedAt) + 1, interval): series[formatDate(i)] = 0
ZeroFill(q) ==
  IF q.endedAt < q.startedAt THEN {}
  ELSE {formatDate(q.startedAt + k * IntervalSeconds(q.interval), q) :
          k \in 0..((q.endedAt - q.startedAt) \div IntervalSeconds(q.interval))}

\* Sqlalchemy.getTimeseries: rows labelled in local time and counted per label
SqlalchemySeries(q) ==
  LET W == InQueryWindow(q)
      labels == {formatDate(r.startedAt, q) : r \in W}
      key(l) == formatDate(strptimeTimestamp(l, q), q)
  IN  [b \in ZeroFill(q) \cup {key(l) : l \in labels} |->
         Cardinality({r \in W : key(formatDate(r.startedAt, q)) = b})]

\* Sqlite.getTimeseries: GROUP BY the UTC hour / day; rep[g] is the row whose
\* startedAt SQLite reports for group g (any row of the group); the rows come
\* ORDER BY startedAt ASC and a later row overwrites an earlier one of its label
SqliteSeries(q, rep) ==
  LET W == InQueryWindow(q)
      groups == DOMAIN rep
      count(g) == Cardinality({r \in W : strftimeUnixepoch(r.startedAt, q) = g})
      label(g) == formatDate(rep[g].startedAt, q)
      last(b) == CHOOSE g \in groups :
                   /\ label(g) = b
                   /\ \A h \in groups : label(h) = b => rep[h].startedAt <= rep[g].startedAt
  IN  [b \in ZeroFill(q) \cup {label(g) : g \in groups} |->
         IF \E g \in groups : label(g) = b THEN count(last(b)) ELSE 0]

\* the rows SQLite may report for the groups of the window
GroupRows(q) ==
  LET W == InQueryWindow(q)
      groups == {strftimeUnixepoch(r.startedAt, q) : r \in W}
  IN  {rep \in [groups -> W] :
         \A g \in groups : strftimeUnixepoch(rep[g].startedAt, q) = g}

\* json.dumps(value): the JSON text, given by its syntax tree
RECURSIVE json_dumps(_)
json_dumps(x) ==
  CASE x.t = "int" -> PyAtom("number", x.v)
    [] x.t = "str" -> PyAtom("string", x.v)
    [] x.t = "none" -> PyAtom("null", "null")
    [] x.t \in {"tuple", "list"} ->
         PySeq("array", [i \in DOMAIN x.items |-> json_dumps(x.items[i])])
    [] x.t = "dict" ->
         [t |-> "object", pairs |-> [i \in DOMAIN x.pairs |->
            [k |-> x.pairs[i].k, val |-> json_dumps(x.pairs[i].val)]]]

\* json.loads(text)
RECURSIVE json_loads(_)
json_loads(j) ==
  CASE j.t = "number" -> PyAtom("int", j.v)
    [] j.t = "string" -> PyAtom("str", j.v)
    [] j.t = "null" -> PyNone
    [] j.t = "array" ->
         PySeq("list", [i \in DOMAIN j.items |-> json_loads(j.items[i])])
    [] j.t = "object" ->
         PyDict([i \in DOMAIN j.pairs |->
            [k |-> j.pairs[i].k, val |-> json_loads(j.pairs[i].val)]])

\* list(x), tuple(x)
py_list(x) == PySeq("list", x.items)
py_tuple(x) == PySeq("tuple", x.items)

\* insert: the TEXT columns args, kwargs and context of the new row
TextColumns(kwds) ==
  [args |-> json_dumps(py_list(kwds.args)),
   kwargs |-> json_dumps(kwds.kwargs),
   context |-> json_dumps(kwds.context)]

\* Measurement.__json__ of the measurement the call q pushes, as the dict
\* handed to insert; profile_stats is what the sampler's finish() returned
MeasurementJson(q) ==
  [name |-> q.name, args |-> q.args, kwargs |-> q.kwargs, method |-> q.method,
   startedAt |-> q.startedAt, endedAt |-> q.endedAt, elapsed |-> q.elapsed,
   context |-> q.context, profile_stats |-> q.profile_stats]

\* kwds.get(key, default)
kwds_get(kwds, key, default) ==
  IF key \in DOMAIN kwds THEN kwds[key] ELSE default

\* Sqlalchemy.insert: the value given to the profileStats column
ProfileStatsColumn(kwds) == kwds_get(kwds, "profileStats", PyNone)

\* a record returned by the Sqlite backend has no profileStats key
NoKey == PyAtom("absent", "KeyError")

jsonify_row_rawKwargs(row) ==
  [id |-> row.id, args |-> py_tuple(json_loads(row.args)), kwargs |-> row.kwargs,
   context |-> json_loads(row.context),
   profileStats |-> IF row.profileStats # PyNone THEN json_loads(row.profileStats)
                    ELSE PyNone]

\* Sqlalchemy.jsonify_row: args, kwargs, context and profileStats of the
\* returned record
jsonify_row(row) ==
  [id |-> row.id,
   args |-> py_tuple(json_loads(row.args)),
   kwargs |-> json_loads(row.kwargs),
   context |-> json_loads(row.context),
   profileStats |-> IF row.profileStats # PyNone THEN json_loads(row.profileStats)
                    ELSE PyNone]

\* Sqlite.jsonify_row: the same conversions, without a profileStats key
SqliteJsonifyRow(row) == [jsonify_row(row) EXCEPT !.profileStats = NoKey]

\* the text columns of a record created with args=(), kwargs={}, context={}
EmptyText == TextColumns([args |-> PySeq("tuple", <<>>), kwargs |-> PyDict(<<>>),
                          context |-> PyDict(<<>>)])

\* a row of the measurements table
Row(id, startedAt, endedAt, elapsed, method, name) ==
  [id |-> id, startedAt |-> startedAt, endedAt |-> endedAt, elapsed |-> elapsed,
   method |-> method, name |-> name, args |-> EmptyText.args,
   kwargs |-> EmptyText.kwargs, context |-> EmptyText.context,
   profileStats |-> PyNone]

\* Sqlite.filter: the WHERE clause
SqliteFilterWhere(q) ==
  {r \in qtable :
     /\ r.endedAt <= q.endedAt
     /\ r.startedAt >= q.startedAt
     /\ q.elapsed # NoElapsed => r.elapsed >= q.elapsed
     /\ q.method # NoMethod => r.method = q.method
     /\ q.name # NoName => r.name = q.name}

\* Sqlalchemy.filter: a constraint is added when its value is truthy
SqlalchemyFilterWhere(q) ==
  {r \in qtable :
     /\ q.endedAt # 0 => r.endedAt <= q.endedAt
     /\ q.startedAt # 0 => r.startedAt >= q.startedAt
     /\ (q.elapsed # NoElapsed /\ q.elapsed # 0) => r.elapsed >= q.elapsed
     /\ q.method # NoMethod => r.method = q.method
     /\ q.name # NoName => r.name = q.name}

\* the order of the values of a TEXT column: method and name by their text
TextRank(x) ==
  CASE x = "GET" -> 1 [] x = "POST" -> 2
    [] x = NameApi -> 1 [] x = NameStatic -> 2
    [] OTHER -> 0

\* the value a row is ordered by; the columns args, kwargs, context and
\* profileStats hold the same text in every row of the tables tried
SortKey(r, field) ==
  CASE field \in {"ID", "id"} -> r.id
    [] field = "startedAt" -> r.startedAt
    [] field = "endedAt" -> r.endedAt
    [] field = "elapsed" -> r.elapsed
    [] field = "method" -> TextRank(r.method)
    [] field = "name" -> TextRank(r.name)
    [] OTHER -> 0

\* ORDER BY field direction: the orders the database may return S in (rows
\* with equal values come in any order)
OrderBy(S, field, direction) ==
  {f \in [1..Cardinality(S) -> S] :
     /\ \A i, j \in DOMAIN f : i # j => f[i] # f[j]
     /\ \A i, j \in DOMAIN f :
          i < j => IF direction = "DESC" THEN SortKey(f[i], field) >= SortKey(f[j], field)
                                         ELSE SortKey(f[i], field) <= SortKey(f[j], field)}

\* LIMIT limit OFFSET skip
Page(f, skip, limit) ==
  SubSeq(f, skip + 1, IF skip + limit < Len(f) THEN skip + limit ELSE Len(f))

\* the result of a query: the ORDER BY it ran with and the rows, or the exception
Result(order, rws) ==
  [raised |-> order.raised, field |-> order.field, direction |-> order.direction,
   rows |-> rws]

\* filter(kwds)
Filter ==
  /\ query.op = "filter" /\ query.pc = "call"
  /\ LET sort == getFiltersSort(query.sort)
         order == IF query.backend = "sqlite"
                    THEN sanitize_sort(sort, ALLOWED_SORT_MAIN, "endedAt", "DESC")
                    ELSE SqlalchemyFilterOrder(sort)
         found == IF query.backend = "sqlite" THEN SqliteFilterWhere(query)
                                              ELSE SqlalchemyFilterWhere(query)
     IN  IF order.raised # "none"
           THEN query' = [query EXCEPT !.pc = "done", !.out = Result(order, <<>>)]
           ELSE \E f \in OrderBy(found, order.field, order.direction) :
                  query' = [query EXCEPT !.pc = "done", !.out =
                              Result(order, Page(f, query.skip, query.limit))]
  /\ UNCHANGED <<recVars, now, nticks, storeVars, retVars, opVars, qtable>>

\* Sqlite.getSummary: the WHERE clause
SqliteSummaryWhere(q) ==
  {r \in qtable :
     /\ r.startedAt >= q.startedAt
     /\ r.endedAt <= q.endedAt
     /\ q.elapsed # NoElapsed => r.elapsed >= q.elapsed}

\* Sqlalchemy.getSummary: a constraint is added when its value is truthy
SqlalchemySummaryWhere(q) ==
  {r \in qtable :
     /\ q.startedAt # 0 => r.startedAt >= q.startedAt
     /\ q.endedAt # 0 => r.endedAt <= q.endedAt
     /\ (q.elapsed # NoElapsed /\ q.elapsed # 0) => r.elapsed >= q.elapsed}

RECURSIVE SumElapsed(_)
SumElapsed(S) ==
  IF S = {} THEN 0
  ELSE LET r == CHOOSE x \in S : TRUE IN r.elapsed + SumElapsed(S \ {r})

\* GROUP BY method, name with count(id), min, max and avg of elapsed; the average
\* is kept as the sum and the number of its terms
GroupByMethodName(S) ==
  {LET G == {r \in S : r.method = g[1] /\ r.name = g[2]}
   IN  [method |-> g[1], name |-> g[2], count |-> Cardinality(G),
        minElapsed |-> CHOOSE m \in {r.elapsed : r \in G} : \A r \in G : m <= r.elapsed,
        maxElapsed |-> CHOOSE m \in {r.elapsed : r \in G} : \A r \in G : m >= r.elapsed,
        avgElapsed |-> [sum |-> SumElapsed(G), n |-> Cardinality(G)]] :
   g \in {<<r.method, r.name>> : r \in S}}

\* a <= b in the order of a summary column; a column of neither the groups nor
\* the aggregates has the value of any row of the group
SummaryLeq(a, b, field) ==
  CASE field = "count" -> a.count <= b.count
    [] field = "minElapsed" -> a.minElapsed <= b.minElapsed
    [] field = "maxElapsed" -> a.maxElapsed <= b.maxElapsed
    [] field = "avgElapsed" -> a.avgElapsed.sum * b.avgElapsed.n
                                 <= b.avgElapsed.sum * a.avgElapsed.n
    [] field = "method" -> TextRank(a.method) <= TextRank(b.method)
    [] field = "name" -> TextRank(a.name) <= TextRank(b.name)
    [] OTHER -> TRUE

SummaryOrderBy(S, field, direction) ==
  {f \in [1..Cardinality(S) -> S] :
     /\ \A i, j \in DOMAIN f : i # j => f[i] # f[j]
     /\ \A i, j \in DOMAIN f :
          i < j => IF direction = "DESC" THEN SummaryLeq(f[j], f[i], field)
                                         ELSE SummaryLeq(f[i], f[j], field)}

\* ORDER BY a column that is neither grouped nor aggregated: SQLite accepts
\* it, other databases reject the statement
UngroupedColumn(order) ==
  /\ order.raised = "none"
  /\ order.field \notin ALLOWED_SORT_SUMMARY
  /\ ~is_sqlite

\* getSummary(kwds)
GetSummary ==
  /\ query.op = "getSummary" /\ query.pc = "call"
  /\ LET sort == getFiltersSort(query.sort)
         order == IF query.backend = "sqlite"
                    THEN sanitize_sort(sort, ALLOWED_SORT_SUMMARY, "count", "DESC")
                    ELSE SqlalchemySummaryOrder(sort)
         found == IF query.backend = "sqlite" THEN SqliteSummaryWhere(query)
                                              ELSE SqlalchemySummaryWhere(query)
     IN  IF order.raised # "none"
           THEN query' = [query EXCEPT !.pc = "done", !.out = Result(order, <<>>)]
         ELSE IF UngroupedColumn(order)
           THEN query' = [query EXCEPT !.pc = "done", !.out =
                            Result(Raised("ProgrammingError"), <<>>)]
           ELSE \E f \in SummaryOrderBy(GroupByMethodName(found), order.field,
                                         order.direction) :
                  query' = [query EXCEPT !.pc = "done", !.out =
                              Result(order, Page(f, query.skip, query.limit))]
  /\ UNCHANGED <<recVars, now, nticks, storeVars, retVars, opVars, qtable>>

\* insert(kwds) of a measurement whose times are whole seconds and whose elapsed
\* is a multiple of the persisted precision: the new row gets the next id and
\* the JSON text of args, kwargs and context
QueryInsert ==
  /\ query.op = "insert" /\ query.pc = "call"
  /\ LET id == 1 + Cardinality(qtable)
         text == TextColumns(query)
         row == [Row(id, query.startedAt, query.endedAt, query.elapsed, query.method,
                     query.name)
                   EXCEPT !.args = text.args, !.kwargs = text.kwargs,
                          !.context = text.context,
                          !.profileStats =
                             IF query.backend = "sqlalchemy"
                               THEN ProfileStatsColumn(MeasurementJson(query))
                               ELSE PyNone]
     IN  /\ qtable' = qtable \cup {row}
         /\ query' = [query EXCEPT !.pc = "inserted", !.id = id]
  /\ UNCHANGED <<recVars, now, nticks, storeVars, retVars, opVars>>

\* get(measurementId) of the record just inserted: {} when there is no such row
Get ==
  /\ query.op = "insert" /\ query.pc = "inserted"
  /\ LET found == {r \in qtable : r.id = query.id}
     IN  query' = [query EXCEPT !.pc = "done", !.out =
           IF found = {} THEN PyDict(<<>>)
           ELSE IF query.backend = "sqlite"
             THEN SqliteJsonifyRow(CHOOSE r \in found : TRUE)
           ELSE jsonify_row(CHOOSE r \in found : TRUE)]
  /\ UNCHANGED <<recVars, now, nticks, storeVars, retVars, opVars, qtable>>

\* getTimeseries(kwds): the series it returns
GetTimeseries ==
  /\ query.op = "getTimeseries" /\ query.pc = "call"
  /\ IF query.backend = "sqlite"
       THEN \E rep \in GroupRows(query) :
              query' = [query EXCEPT !.pc = "done", !.out = SqliteSeries(query, rep)]
       ELSE query' = [query EXCEPT !.pc = "done", !.out = SqlalchemySeries(query)]
  /\ UNCHANGED <<recVars, now, nticks, storeVars, retVars, opVars, qtable>>

\* the sort parameters tried: one to three pieces, fields and directions of each
\* kind, with and without blanks around them
SortFields == {Lit(t) : t \in {"ID", "id", "endedAt", "elapsed", "count", "avgElapsed",
                               "args", "bogus", ""}}
                \cup {Padded("elapsed"), Padded("count")}
SortDirections == {Lit(t) : t \in {"desc", "asc", "DESC", "sideways", ""}}
                    \cup {Padded("asc")}
SortParams ==
  {NoSort} \cup {<<f>> : f \in SortFields}
           \cup {<<f, d>> : f \in SortFields, d \in SortDirections}
           \cup {<<f, d, Lit("bogus")>> : f \in SortFields, d \in SortDirections}

\* the instants tried: every half hour / half day from 0
Instants(interval) == {k * (IntervalSeconds(interval) \div 2) : k \in 0..MaxHalves}

\* local time is UTC or UTC+12:00
UtcOffsets == {0, 12 * 3600}

\* the tables tried: up to MaxRecords records, ids in the order of their times
Tables(interval) ==
  LET T == Instants(interval)
      Recs(n) == {f \in [1..n -> {<<s, e>> \in T \X T : s <= e}] :
                    \A i \in 1..n, j \in 1..n :
                      i < j => \/ f[i][1] < f[j][1]
                               \/ f[i][1] = f[j][1] /\ f[i][2] <= f[j][2]}
  IN  {{Row(i, f[i][1], f[i][2], 1, "GET", NameApi) : i \in 1..n} :
         <<n, f>> \in UNION {{n} \X Recs(n) : n \in 0..MaxRecords}}

\* startedAt and endedAt of the records the tables of filter and getSummary are
\* made of: three that end at once and one that takes half an hour
FilterTimes == {<<0, 0>>, <<1800, 1800>>, <<1800, 3600>>, <<5400, 5400>>}

\* those records: elapsed 1 or 2, GET or POST, one of the names
FilterRecords ==
  {<<w[1], w[2], el, m, nm>> : w \in FilterTimes,
                               el \in {1, 2},
                               m \in {"GET", "POST"},
                               nm \in Names} \ {<<w[1], w[2], el, "POST", NameStatic>> :
                                                   w \in FilterTimes, el \in {1, 2}}

\* a <= b in the order the records are numbered in
RecordLeq(a, b) ==
  LET ka == <<a[1], a[2], a[3], TextRank(a[4]), TextRank(a[5])>>
      kb == <<b[1], b[2], b[3], TextRank(b[4]), TextRank(b[5])>>
  IN  \/ ka = kb
      \/ \E i \in 1..5 : ka[i] < kb[i] /\ \A j \in 1..(i - 1) : ka[j] = kb[j]

\* the tables tried for filter and getSummary: up to MaxRecords records
FilterTables ==
  LET Recs(n) == {f \in [1..n -> FilterRecords] :
                    \A i \in 1..n, j \in 1..n : i < j => RecordLeq(f[i], f[j])}
  IN  {{Row(i, f[i][1], f[i][2], f[i][3], f[i][4], f[i][5]) : i \in 1..n} :
         <<n, f>> \in UNION {{n} \X Recs(n) : n \in 0..MaxRecords}}

\* the JSON-compatible values tried as elements of args and as values of kwargs
\* and context: int, str, None, a list, a tuple and a dict of one item
PyElements ==
  LET one == PyAtom("int", "1")
  IN  {one, PyAtom("str", "v"), PyNone, PySeq("list", <<one>>), PySeq("tuple", <<one>>),
       PyDict(<<[k |-> "a", val |-> one]>>)}

\* args: a tuple or a list of up to MaxArgs elements
ArgsTried ==
  {PySeq(t, items) : t \in {"tuple", "list"},
                     items \in UNION {[1..n -> PyElements] : n \in 0..MaxArgs}}

\* kwargs and context: a dict of no item or of one
DictsTried == {PyDict(<<>>)} \cup {PyDict(<<[k |-> "k", val |-> e]>>) : e \in PyElements}

\* the windows, pages and sort parameters tried with those tables
FilterWindows == {<<0, 0>>, <<1800, 3600>>}
FilterPages == {<<0, 100>>, <<1, 1>>, <<0, 0>>}
FilterSorts == {NoSort, <<Lit("elapsed"), Lit("asc")>>}
SummarySorts == {NoSort, <<Lit("count"), Lit("desc")>>, <<Lit("avgElapsed"), Lit("asc")>>}

\* what the sampler's finish() returns: nothing, or a profiling blob
StatsTried == {PyNone, PyAtom("str", "blob")}

InitQuery ==
  /\ config = [a \in Apps |-> CfgOn]
  /\ extensions = [a \in Apps |-> NoState]
  /\ states = <<>>
  /\ last_state = NoState
  /\ view_functions = [a \in Apps |-> [e \in Endpoints |->
                         IF e = "e1" THEN VfPlain ELSE VfAbsent]]
  /\ init_failed = [a \in Apps |-> FALSE]
  /\ frames = [c \in Callers |-> Frame0]
  /\ ninv = 0
  /\ skipped = {}
  /\ now = 0
  /\ nticks = 0
  /\ rows = [d \in DBs |-> {}]
  /\ idseq = [d \in DBs |-> 0]
  /\ meta = [d \in DBs |-> <<0>>]
  /\ retention_period_s = 0
  /\ rproc = <<>>
  /\ dblock = 0
  /\ nret = 0
  /\ ninserts = 0
  /\ sproc = <<>>
  /\ slock = 0
  /\ conn = {}
  /\ \E backend \in {"sqlite", "sqlalchemy"} :
       \/ /\ is_sqlite \in IF backend = "sqlite" THEN {TRUE} ELSE BOOLEAN
          /\ qtable \in FilterTables
          /\ \E w \in FilterWindows, el \in {NoElapsed, 2}, pg \in FilterPages :
               \/ \E m \in {NoMethod, "GET"}, nm \in {NoName, NameApi},
                     sort \in FilterSorts :
                    query = [Query0 EXCEPT !.op = "filter", !.backend = backend,
                               !.pc = "call", !.sort = sort, !.startedAt = w[1],
                               !.endedAt = w[2], !.elapsed = el, !.method = m,
                               !.name = nm, !.skip = pg[1], !.limit = pg[2]]
               \/ \E sort \in SummarySorts :
                    query = [Query0 EXCEPT !.op = "getSummary", !.backend = backend,
                               !.pc = "call", !.sort = sort, !.startedAt = w[1],
                               !.endedAt = w[2], !.elapsed = el,
                               !.skip = pg[1], !.limit = pg[2]]
       \/ /\ is_sqlite = TRUE
          /\ qtable \in {{}, {Row(1, 0, 0, 1, "GET", NameApi)}}
          /\ \E a \in ArgsTried, kw \in DictsTried, cx \in DictsTried,
                ps \in StatsTried :
               query = [Query0 EXCEPT !.op = "insert", !.backend = backend,
                          !.pc = "call", !.startedAt = 1800, !.endedAt = 1800,
                          !.elapsed = 1, !.method = "GET", !.name = NameApi,
                          !.args = a, !.kwargs = kw, !.context = cx,
                          !.profile_stats = ps]
       \/ /\ is_sqlite = TRUE
          /\ qtable = {}
          /\ \E op \in {"filter", "getSummary"}, sort \in SortParams :
               query = [Query0 EXCEPT !.op = op, !.backend = backend, !.pc = "call",
                                      !.sort = sort]
       \/ \E interval \in {"hourly", "daily"}, off \in UtcOffsets :
            /\ is_sqlite = TRUE
            /\ qtable \in Tables(interval)
            /\ \E s \in Instants(interval), e \in Instants(interval) :
                 /\ s <= e
                 /\ query = [Query0 EXCEPT !.op = "getTimeseries", !.backend = backend,
                               !.pc = "call", !.startedAt = s, !.endedAt = e,
                               !.interval = interval, !.utcoffset = off]

NextQuery ==
  \/ Filter
  \/ GetSummary
  \/ GetTimeseries
  \/ QueryInsert
  \/ Get

SpecQuery == InitQuery /\ [][NextQuery]_vars

\* =================================================================== claims

\* the rows, in any backing store, that invocation inv pushed
RowsOf(inv) == UNION {{r \in rows[d] : r.uid = inv} : d \in DBs}

\* "matches an ignore pattern (regular-expression search anywhere in the name)",
\* read off the claim: some stretch of the name spells the pattern
Spells(pattern, name, off) ==
  /\ off + Len(pattern) <= Len(name)
  /\ \A j \in 1..Len(pattern) : pattern[j] \in {".", name[off + j]}
Ignored(name, conf) ==
  \E k \in DOMAIN conf.ignore : \E off \in 0..Len(name) : Spells(conf.ignore[k], name, off)

\* the state an invocation went through is enabled
Enabled(f) == f.sid # NoState /\ states[f.sid].enabled
\* the sampling decision of an invocation is true: no sampling function, or it said so
SampledIn(f) == states[f.sid].conf.sampling = "absent" \/ f.samp = "true"
\* the one row of invocation f, in the storage of its instance
OneRowOf(f) ==
  /\ Cardinality(RowsOf(f.inv)) = 1
  /\ \A r \in RowsOf(f.inv) :
       /\ r \in rows[states[f.sid].collection.db]
       /\ r.name = f.name /\ r.method = f.method /\ r.elapsed >= 0

\* C1: on an enabled profiler, for a name no ignore pattern matches and a sampling
\* decision of true, an invocation of a callable wrapped with measure(func, name,
\* method) whose storage push does not fail returns the callable's own result and
\* adds exactly one Measurement with that name, that method and elapsed >= 0 to the
\* storage of the instance.
C1_MeasureRecordsOnce ==
  \A c \in Callers :
    LET f == frames[c]
    IN  ( /\ f.pc = "done" /\ f.via = "measure" /\ Enabled(f)
          /\ ~Ignored(f.name, states[f.sid].conf) /\ SampledIn(f)
          /\ f.fout.tag = "ret" /\ f.push # "failed" )
        => f.result = f.fout /\ f.runs = 1 /\ OneRowOf(f)

C1_Witness ==
  \E c \in Callers :
    /\ frames[c].pc = "done" /\ frames[c].via = "measure" /\ frames[c].push = "ok"
    /\ frames[c].fout.tag = "ret" /\ frames[c].samp = "true"
    /\ \E r \in RowsOf(frames[c].inv) : r.elapsed > 0

\* C2: when a measured callable raises, exactly one Measurement of the invocation is
\* persisted (the storage push not failing) and the caller observes the callable's
\* own failure.
C2_RaisePersists ==
  \A c \in Callers :
    LET f == frames[c]
    IN  (f.pc = "done" /\ f.rec /\ f.fout.tag = "raise" /\ f.push # "failed")
        => f.result = f.fout /\ f.runs = 1 /\ f.push = "ok" /\ OneRowOf(f)

C2_Witness ==
  \E c \in Callers :
    /\ frames[c].pc = "done" /\ frames[c].rec /\ frames[c].fout.tag = "raise"
    /\ frames[c].result = Raise("FuncError") /\ RowsOf(frames[c].inv) # {}

\* C3: a disabled instance has no storage handle, its initialization wraps no
\* endpoint, and every call through its measure, wrap_http_endpoint or profile()
\* runs the original callable once and returns its result or error verbatim, with
\* no measurement and no storage call.
C3_DisabledState ==
  /\ \A s \in 1..Len(states) : ~states[s].enabled => states[s].collection = NoHandle
  /\ \A c \in Callers :
       LET f == frames[c]
       IN  (f.sid # NoState /\ ~states[f.sid].enabled) =>
             /\ ~f.rec /\ f.startedAt = NoTime /\ f.push = "none"
             /\ RowsOf(f.inv) = {}
             /\ f.pc = "done" => (f.result = f.fout /\ f.runs = 1)
C3_DisabledInitWrapsNothing ==
  (Len(states') > Len(states) /\ ~states'[Len(states')].enabled)
    => view_functions' = view_functions
C3_Disabled == [](C3_DisabledState) /\ [][C3_DisabledInitWrapsNothing]_vars

C3_Witness ==
  \E c \in Callers :
    /\ frames[c].pc = "done" /\ frames[c].via = "http" /\ frames[c].sid # NoState
    /\ ~states[frames[c].sid].enabled /\ frames[c].fout.tag = "raise"

C5_SamplingPerInvocation ==
  \A c \in Callers :
    LET f == frames[c]
    IN  /\ f.samp = "false" =>
             /\ ~f.rec /\ f.startedAt = NoTime /\ f.push = "none"
             /\ RowsOf(f.inv) = {}
             /\ f.pc = "done" => (f.result = f.fout /\ f.runs = 1)
        /\ f.samp = "true" =>
             /\ f.rec /\ f.startedAt # NoTime
             /\ (f.pc = "done" /\ f.push # "failed") => OneRowOf(f)

C5_Witness ==
  \E c \in Callers :
    /\ frames[c].pc = "done" /\ frames[c].samp = "true" /\ frames[c].push = "ok"
    /\ frames[c].sid \in skipped
    /\ RowsOf(frames[c].inv) # {}

\* C6: two instances initialized for different applications, in either order, each
\* with its own backing store: an invocation recorded through one leaves the rows
\* of every other store unchanged, and the collection resolved in an application's
\* context is that application's own storage.
C6_OwnCollection ==
  \A a \in Apps :
    (extensions[a] # NoState /\ states[extensions[a]].enabled)
      => CollectionProxy(a) = [db |-> a, engine |-> config[a].engine]
C6_OthersUnchanged ==
  \A c \in Callers :
    (frames[c].pc = "run" /\ frames'[c].pc = "done" /\ frames[c].sid # NoState)
      => \A d \in DBs : d # states[frames[c].sid].app => rows'[d] = rows[d]
C6_Isolation == [](C6_OwnCollection) /\ [][C6_OthersUnchanged]_vars

C6_Witness ==
  /\ \A a \in Apps : extensions[a] # NoState /\ states[extensions[a]].enabled
  /\ last_state = extensions["a2"] /\ extensions["a1"] < extensions["a2"]
  /\ rows["a1"] # {} /\ rows["a2"] = {}

\* two calls of retention_deletion are concurrent: one began before the other returned
Concurrent(p, q) == p \in rproc[q].with \/ q \in rproc[p].with

\* C7: of two concurrent calls of retention_deletion on the same backend at most
\* one deletes and returns true; the other returns false, and a call that does
\* not return true modifies neither the measurements nor the retention metadata.
C7_OutcomesOfTwo ==
  \A p, q \in DOMAIN rproc :
    (p # q /\ Concurrent(p, q) /\ rproc[p].pc = "done" /\ rproc[q].pc = "done")
      => /\ rproc[p].out \in {"true", "false"}
         /\ rproc[p].out = "true" => rproc[q].out = "false"
C7_LoserWritesNothing ==
  \A p \in DOMAIN rproc :
    (rproc[p].pc # "done" /\ rproc'[p].pc = "done" /\ rproc'[p].out # "true")
      => UNCHANGED storeVars
C7_AtMostOneDeletes == [](C7_OutcomesOfTwo) /\ [][C7_LoserWritesNothing]_vars

\* C8: with retention period P, a call of retention_deletion that reads
\* lastRetentionDeletionTime + P/4 < now and meets no fault returns true, and the
\* records that were stored with startedAt + P < now are absent from the table
\* ever after; a second call made before P/4 has elapsed since the first returns
\* false.
C8_RetentionDeletes ==
  /\ \A p \in DOMAIN rproc :
       LET c == rproc[p]
       IN  ( /\ c.pc = "done" /\ c.cur # NoTime /\ c.failedAt = "none"
             /\ 4 * c.last + retention_period_s < 4 * c.cur )
           => c.out = "true" /\ \A r \in rows[RetDb] : r.uid \notin c.old
  /\ \A p, q \in DOMAIN rproc :
       ( /\ rproc[p].out = "true" /\ rproc[q].pc = "done" /\ rproc[q].cur # NoTime
         /\ rproc[q].last = rproc[p].cur
         /\ 4 * (rproc[q].cur - rproc[p].cur) < retention_period_s )
       => rproc[q].out = "false"

C8_Witness ==
  \E p, q \in DOMAIN rproc :
    /\ rproc[p].out = "true" /\ rproc[p].old # {}
    /\ rproc[q].out = "false" /\ rproc[q].failedAt = "none"
    /\ rproc[q].last = rproc[p].cur /\ rproc[q].cur >= rproc[p].cur
    /\ 4 * (rproc[q].cur - rproc[p].cur) < retention_period_s

\* C9: retention_deletion removes exactly the records whose captured startedAt +
\* retentionPeriod < now and leaves every other record; when
\* lastRetentionDeletionTime + retentionPeriod/4 >= now it returns false and leaves
\* the measurements and lastRetentionDeletionTime unchanged.
C9_CommitRemovesCaptured ==
  \A p \in DOMAIN rproc :
    /\ (rproc[p].pc = "commit" /\ rproc'[p].out = "true")
         => rows'[RetDb] = {r \in rows[RetDb] :
                              ~(r.capStartedAt + retention_period_s < rproc[p].cur)}
    /\ ( /\ rproc[p].pc = "select" /\ rproc'[p].pc = "done"
         /\ rproc'[p].cur # NoTime /\ rproc'[p].failedAt = "none"
         /\ 4 * rproc'[p].last + retention_period_s >= 4 * rproc'[p].cur )
         => rproc'[p].out = "false" /\ UNCHANGED storeVars
C9_ExactlyCapturedExpired == [][C9_CommitRemovesCaptured]_vars

\* C10: the metadata update and the deletion of retention_deletion take effect as
\* one unit: a step that changes lastRetentionDeletionTime or removes a record is
\* the commit of one call, which sets lastRetentionDeletionTime to its current_time
\* and removes the expired records, no others; a call that fails at any statement
\* leaves both as they were.
C10_OneUnit ==
  /\ (meta' # meta \/ \E r \in rows[RetDb] : r \notin rows'[RetDb]) =>
       \E p \in DOMAIN rproc :
         /\ rproc[p].pc = "commit" /\ rproc'[p].out = "true"
         /\ meta'[RetDb] = <<rproc[p].cur>>
         /\ \A r \in rows[RetDb] : r \notin rows'[RetDb]
                => r.startedAt + retention_period_s < rproc[p].cur
         /\ \A r \in rows'[RetDb] : r.uid \notin rproc[p].old
  /\ \A p \in DOMAIN rproc :
       (rproc[p].pc # "done" /\ rproc'[p].pc = "done" /\ rproc'[p].out # "true")
         => meta' = meta /\ rows' = rows
C11_NeverRaises ==
  \A p \in DOMAIN rproc :
    rproc[p].pc = "done" => rproc[p].out \in {"true", "false"}

\* the statement at which a call meets a lock another caller holds: BEGIN
\* EXCLUSIVE on the SQLite-URL path, SELECT ... FOR UPDATE on the row-lock path
MeetsHeldLock(p) ==
  /\ dblock \notin {0, p}
  /\ rproc[p].pc = IF is_sqlite THEN "begin" ELSE "select"

\* C12: a call of retention_deletion that meets the retention lock held by another
\* caller returns false at that statement, without waiting for the lock, on the
\* SQLite-URL path as on the row-lock path.
C12_StepAtHeldLock ==
  \A p \in DOMAIN rproc :
    (MeetsHeldLock(p) /\ rproc'[p] # rproc[p])
      => rproc'[p].pc = "done" /\ rproc'[p].out = "false"
C12_HeldLockReturnsFalse == [][C12_StepAtHeldLock]_vars

\* C17: a storage write failure in the push of a measured invocation does not
\* suppress the invocation's own outcome: the wrapper still returns the callable's
\* result or raises the callable's own failure.
C17_OutcomeSurvivesPushFailure ==
  \A c \in Callers :
    (frames[c].pc = "done" /\ frames[c].push = "failed")
      => frames[c].result = frames[c].fout

\* the insert calls that return in a step
ReturningInserts ==
  {t \in DOMAIN sproc : /\ sproc[t].op = "insert" /\ sproc[t].pc # "done"
                        /\ sproc'[t].pc = "done" /\ sproc'[t].out = "ok"}

\* C13: with any number of insert calls in progress on one handle, every insert
\* that returns has its record stored, the number of stored records grows by the
\* number of inserts that complete, and the ids of the stored records are
\* pairwise distinct.
C13_StoredGrowsByCompleted ==
  (ReturningInserts # {} \/ Cardinality(rows'[RetDb]) > Cardinality(rows[RetDb]))
    => /\ Cardinality(rows'[RetDb])
            = Cardinality(rows[RetDb]) + Cardinality(ReturningInserts)
       /\ \A t \in ReturningInserts : \E r \in rows'[RetDb] : r.uid = t
C13_DistinctIds ==
  \A r1, r2 \in rows[RetDb] : r1.id = r2.id => r1 = r2
C13_ConcurrentInserts == [](C13_DistinctIds) /\ [][C13_StoredGrowsByCompleted]_vars

\* the threads that are using the connection of the Sqlite backend
UsingConnection == {t \in DOMAIN sproc : sproc[t].pc \in {"execute", "commit"}}

\* C14: on the single-connection Sqlite backend at most one thread uses the
\* connection at any time: a thread of insert, a read, truncate or delete holds
\* Sqlite.lock for all its use of the connection, and does not hold it once the
\* operation has returned or raised.
C14_SerializedConnection ==
  OnSqliteBackend =>
    /\ Cardinality(UsingConnection) <= 1
    /\ \A t \in DOMAIN sproc :
         /\ t \in UsingConnection => slock = t
         /\ sproc[t].pc \in {"start", "done"} => slock # t

C14_Witness ==
  /\ OnSqliteBackend
  /\ \E t, u, w \in DOMAIN sproc :
       /\ sproc[t].pc = "done" /\ sproc[t].out = "raise"
       /\ sproc[u].op = "read" /\ sproc[u].pc = "execute" /\ slock = u
       /\ sproc[w].pc = "start"

\* the rows of the table, those of an open transaction of the connection included
Table == rows[RetDb] \cup conn

\* C15: every insert assigns an id greater than every id assigned before (no id is
\* used again after its record was deleted), no two stored records share an id,
\* and the id of a stored record never changes.
C15_IdStep ==
  /\ \A r \in (rows'[RetDb] \cup conn') \ Table : r.id > idseq[RetDb]
  /\ \A r1 \in Table : \A r2 \in rows'[RetDb] \cup conn' :
       r1.uid = r2.uid => r1.id = r2.id
C15_UniqueIds == \A r1, r2 \in Table : r1.id = r2.id => r1 = r2
C15_MonotonicIds == [](C15_UniqueIds) /\ [][C15_IdStep]_vars

\* the constructor of the Sqlalchemy backend has run in some process
StorageInitialized ==
  /\ ~OnSqliteBackend
  /\ \E t \in DOMAIN sproc : /\ sproc[t].op = "create_database"
                             /\ sproc[t].pc = "done" /\ sproc[t].out # "raise"

\* C16: once the storage is initialized, under every interleaving of
\* create_database (of two processes too), truncate and the other operations,
\* exactly one retention-metadata row exists.
C16_OneMetadataRow == StorageInitialized => Len(meta[RetDb]) = 1

\* C18: an insert that fails raises to its caller and leaves the stored
\* measurements as they were: its record is in no committed state of the table and
\* in no result of a read, also after later operations have committed.
C18_FailedInsertInvisible ==
  \A t \in DOMAIN sproc :
    (sproc[t].op = "insert" /\ sproc[t].pc = "done" /\ sproc[t].out # "ok")
      => /\ sproc[t].out = "raise"
         /\ \A r \in rows[RetDb] : r.uid # t
         /\ \A u \in DOMAIN sproc : t \notin sproc[u].seen

\* the field names a query may be ordered by; id is the column ID as the
\* Sqlalchemy backend names it
AllowList(op) == IF op = "filter" THEN ALLOWED_SORT_MAIN \cup {"id"}
                                  ELSE ALLOWED_SORT_SUMMARY

\* the sort parameter names no field of the allow-list
FieldNotAllowed(q) == q.sort = NoSort \/ q.sort[1].text \notin AllowList(q.op)

\* the sort parameter has no direction, or one that is neither asc nor desc
DirectionInvalid(q) ==
  \/ q.sort = NoSort
  \/ Len(q.sort) < 2
  \/ upper(q.sort[2]).text \notin {"ASC", "DESC"}

SortDone == query.pc = "done" /\ query.op \in {"filter", "getSummary"}

\* C19: whatever the sort parameter, filter and getSummary do not raise; they
\* order by a field of the allow-list, by the default field (endedAt for filter,
\* count for getSummary) when the requested one is not on it, and descending
\* when the direction is missing or invalid
C19_SortFallsBack ==
  SortDone =>
    /\ query.out.raised = "none"
    /\ query.out.field \in AllowList(query.op)
    /\ FieldNotAllowed(query) =>
          query.out.field = IF query.op = "filter" THEN "endedAt" ELSE "count"
    /\ DirectionInvalid(query) => query.out.direction = "DESC"

\* the hour / day of local time that holds t
Bucket(t) == formatDate(t, query)

\* C20: getTimeseries returns an entry for every bucket from the one holding
\* startedAt to the one holding endedAt, and the count of every entry is the
\* number of stored records of the window whose startedAt lies in that bucket
C20_DenseTimeseries ==
  (query.pc = "done" /\ query.op = "getTimeseries") =>
    /\ \A b \in 0..Bucket(query.endedAt) :
          b >= Bucket(query.startedAt) => b \in DOMAIN query.out
    /\ \A b \in DOMAIN query.out :
          query.out[b] = Cardinality({r \in InQueryWindow(query) :
                                       Bucket(r.startedAt) = b})

\* the calls of operation op that return in this step without a failure of a
\* statement or of the commit
Returning(op) ==
  {t \in DOMAIN sproc : /\ sproc[t].op = op /\ sproc[t].pc # "done"
                        /\ sproc'[t].pc = "done" /\ ~sproc'[t].failed}

\* the stored records a delete or truncate meets: the committed table
Stored == rows[RetDb]

\* C24: a delete(id) that returns removes the stored record with that id and
\* returns true when there is one, returns false and changes nothing when there
\* is none, and leaves every other stored record as it was
C24_DeleteStep ==
  \A t \in Returning("delete") :
    /\ rows'[RetDb] = {r \in Stored : r.id # sproc[t].arg}
    /\ sproc'[t].out = IF \E r \in Stored : r.id = sproc[t].arg THEN "true" ELSE "false"

C24_DeleteRemovesOne == [][C24_DeleteStep]_vars

\* the retention metadata a fresh store has; the Sqlite backend keeps none
FreshMeta == IF OnSqliteBackend THEN <<>> ELSE <<0>>

\* the truncate calls that have returned without a failure
TruncatesDone ==
  {t \in DOMAIN sproc : sproc[t].op = "truncate" /\ sproc[t].pc = "done"
                        /\ ~sproc[t].failed}

\* C25: a truncate that returns leaves no measurement record and the metadata
\* at its fresh baseline, and when the store was already empty and fresh it
\* returns the flag the truncate calls before it returned
C25_TruncateStep ==
  \A t \in Returning("truncate") :
    /\ rows'[RetDb] = {} /\ meta'[RetDb] = FreshMeta
    /\ (Stored = {} /\ meta[RetDb] = FreshMeta)
         => \A u \in TruncatesDone : sproc'[t].out = sproc[u].out

C25_TruncateIdempotent == [][C25_TruncateStep]_vars

\* the query is over and was op
QueryDone(op) == query.pc = "done" /\ query.op = op

\* the sort parameter is absent, or names a field of the allow-list and asc or desc
SortValid(q) ==
  \/ q.sort = NoSort
  \/ /\ Len(q.sort) = 2
     /\ q.sort[1] \in {Lit(a) : a \in AllowList(q.op) \ {"id"}}
     /\ q.sort[2] \in {Lit("asc"), Lit("desc")}

\* the stored records that satisfy the constraints the query gives
Satisfying(q) ==
  {r \in qtable :
     /\ r.startedAt >= q.startedAt
     /\ r.endedAt <= q.endedAt
     /\ q.elapsed # NoElapsed => r.elapsed >= q.elapsed
     /\ (q.op = "filter" /\ q.method # NoMethod) => r.method = q.method
     /\ (q.op = "filter" /\ q.name # NoName) => r.name = q.name}

\* the sequences that list every element of S once
Arrangements(S) ==
  {f \in [1..Cardinality(S) -> S] : \A i, j \in DOMAIN f : i # j => f[i] # f[j]}

\* f is in the sort order the query asks for (endedAt descending by default)
InRequestedOrder(f, q) ==
  LET field == IF q.sort = NoSort THEN "endedAt" ELSE q.sort[1].text
      desc == q.sort = NoSort \/ q.sort[2].text = "desc"
  IN  \A i, j \in DOMAIN f :
        i < j => IF desc THEN SortKey(f[i], field) >= SortKey(f[j], field)
                         ELSE SortKey(f[i], field) <= SortKey(f[j], field)

\* the number of results left after skip are omitted and at most limit kept
PageLength(n, q) ==
  IF n <= q.skip THEN 0 ELSE IF n - q.skip < q.limit THEN n - q.skip ELSE q.limit

\* C21: filter returns the stored records that satisfy every given constraint,
\* in the requested sort order, without the first skip of them and at most limit
C21_FilterResult ==
  (QueryDone("filter") /\ SortValid(query)) =>
    /\ query.out.raised = "none"
    /\ \E f \in Arrangements(Satisfying(query)) :
         /\ InRequestedOrder(f, query)
         /\ \A i \in 1..PageLength(Len(f), query) :
              query.out.rows[i] = f[query.skip + i]
         /\ Len(query.out.rows) = PageLength(Len(f), query)

\* the records of the window with the given method and name
OfPair(q, method, name) == {r \in Satisfying(q) : r.method = method /\ r.name = name}

\* C22: getSummary returns, up to pagination, one entry for each (method, name)
\* that has a stored record in the window, with the count of those records, the
\* least and the greatest of their elapsed, and an average between the two
C22_SummaryEntries ==
  (QueryDone("getSummary") /\ SortValid(query)) =>
    LET out == query.out.rows
        pairs == {<<r.method, r.name>> : r \in Satisfying(query)}
    IN  /\ query.out.raised = "none"
        /\ Len(out) = PageLength(Cardinality(pairs), query)
        /\ \A i, j \in DOMAIN out :
             i # j => <<out[i].method, out[i].name>> # <<out[j].method, out[j].name>>
        /\ \A i \in DOMAIN out :
             LET G == OfPair(query, out[i].method, out[i].name)
             IN  /\ G # {}
                 /\ out[i].count = Cardinality(G)
                 /\ \A r \in G : out[i].minElapsed <= r.elapsed
                                  /\ r.elapsed <= out[i].maxElapsed
                 /\ \E r \in G : r.elapsed = out[i].minElapsed
                 /\ \E r \in G : r.elapsed = out[i].maxElapsed
                 /\ out[i].minElapsed * out[i].avgElapsed.n <= out[i].avgElapsed.sum
                 /\ out[i].avgElapsed.sum <= out[i].maxElapsed * out[i].avgElapsed.n

\* a and b have the same structure: sequences (tuple or list) of the same length
\* with elements of the same structure, mappings of the same keys to values of
\* the same structure, or the same int, str or None
RECURSIVE StructEq(_, _)
StructEq(a, b) ==
  IF a.t \in {"tuple", "list"}
    THEN /\ b.t \in {"tuple", "list"}
         /\ Len(a.items) = Len(b.items)
         /\ \A i \in DOMAIN a.items : StructEq(a.items[i], b.items[i])
  ELSE IF a.t = "dict"
    THEN /\ b.t = "dict"
         /\ {a.pairs[i].k : i \in DOMAIN a.pairs} = {b.pairs[i].k : i \in DOMAIN b.pairs}
         /\ \A i \in DOMAIN a.pairs, j \in DOMAIN b.pairs :
              a.pairs[i].k = b.pairs[j].k => StructEq(a.pairs[i].val, b.pairs[j].val)
  ELSE a = b

\* C23: get(id) of an inserted record returns args, kwargs and context of the
\* same structure as the inserted ones
C23_JsonRoundTrip ==
  QueryDone("insert") =>
    /\ query.out.id = query.id
    /\ StructEq(query.out.args, query.args)
    /\ StructEq(query.out.kwargs, query.kwargs)
    /\ StructEq(query.out.context, query.context)

C23_Witness ==
  /\ QueryDone("insert")
  /\ query.out.id = 2
  /\ Len(query.args.items) = 2
  /\ query.args.items[1].t = "tuple" /\ query.args.items[2].t = "dict"
  /\ query.kwargs.pairs # <<>> /\ query.context.pairs # <<>>
\* the _ProfilerState objects created for application a
StatesOf(a) == {i \in DOMAIN states : states[i].app = a}

\* an init_app call has just raised for application a
InitFails(a) == ~init_failed[a] /\ init_failed'[a]

\* an application without profiler configuration holds no profiler state
NeverReady ==
  \A a \in Apps : ~config[a].present =>
     /\ extensions[a] = NoState
     /\ StatesOf(a) = {}
     /\ \A e \in Endpoints : view_functions[a][e].kind = "http" =>
           view_functions[a][e].sid \notin StatesOf(a)

C28_FailedInitStep ==
  \A a \in Apps : InitFails(a) =>
     /\ ~config[a].present
     /\ UNCHANGED <<extensions, states, last_state, view_functions, storeVars>>

\* C28: initializing an application that has no profiler configuration fails
\* and the instance is never Ready: the failing call puts no state in the
\* extensions registry, leaves the global last reference as it was, creates no
\* state (so opens no storage) and wraps no endpoint.
C28_NoConfigNeverReady == []NeverReady /\ [][C28_FailedInitStep]_vars

\* the initialization of an unconfigured application has failed after another
\* application was initialized
C28_Witness ==
  \E a \in Apps : init_failed[a] /\ ~config[a].present /\ last_state # NoState

\* an init_app call has just created a state
InitSucceeds == Len(states') = Len(states) + 1

C29_SecondInitStep ==
  InitSucceeds =>
    LET sid == Len(states')
        b == states'[sid].app
    IN  /\ last_state' = sid
        /\ extensions'[b] = sid
        /\ SubSeq(states', 1, Len(states)) = states
        /\ \A a \in Apps \ {b} :
              /\ extensions'[a] = extensions[a]
              /\ view_functions'[a] = view_functions[a]

\* C29: initializing a profiler for application B after application A makes
\* B's instance the global last reference and leaves A's instance as it was:
\* its enabled flag, configuration, storage handle, wrapped endpoints and its
\* registration in A's extensions.
C29_SecondInitKeepsFirst == [][C29_SecondInitStep]_vars

\* B was initialized after an enabled A whose endpoint is wrapped
C29_Witness ==
  /\ Len(states) = 2
  /\ states[1].app # states[2].app
  /\ states[1].enabled /\ states[2].enabled
  /\ last_state = 2
  /\ extensions[states[1].app] = 1
  /\ view_functions[states[1].app]["e1"] = [kind |-> "http", sid |-> 1]

\* the invocation in frame f went through an enabled state whose
\* sampling_function is not callable
BadSamplerCall(f) ==
  /\ f.inv > 0
  /\ f.via \in {"measure", "http", "profile"}
  /\ f.sid # NoState
  /\ states[f.sid].enabled
  /\ states[f.sid].conf.sampling = "notcallable"

\* the invocation raised the configuration error before the callable ran, and
\* nothing was stored for it
RaisedAtSamplingCheck(f) ==
  /\ f.pc = "done"
  /\ f.result = Raise("ConfigError")
  /\ f.runs = 0
  /\ ~f.rec
  /\ \A d \in DBs : \A r \in rows[d] : r.uid # f.inv

Vias == {"measure", "http", "profile"}

\* on entry, the suspending path takes the decision of the blocking path: the
\* frame of an invocation of a coroutine function differs in nothing but the
\* calling convention from the frame the same wrapper, state, name, method and
\* sampling outcome give a plain callable
C26_SameDecision ==
  \A c \in Callers :
    (ninv' = ninv + 1 /\ frames'[c].inv = ninv' /\ frames'[c].is_async) =>
      LET g == frames'[c]
          blocking == [g EXCEPT !.is_async = FALSE]
      IN  IF g.via \in Vias /\ g.sid # NoState /\ states[g.sid].enabled
            THEN \E b \in BOOLEAN :
                   blocking = Recorded(g.via, g.sid, g.name, g.method, b, g.inv, FALSE)
            ELSE blocking = Bare(g.via, g.sid, g.name, g.method, g.inv, FALSE)

\* on exit, the suspending path does to the frame and to the storage what the
\* blocking path does for the same outcome of the callable and of the push
C26_SameOutcome ==
  \A c \in Callers, o \in FuncOutcomes, ok \in BOOLEAN :
    CoroutineReturns(c, o, ok) => RecordCallFinish(c, o, ok)

\* C26: the suspending and the blocking recording path are equivalent: for the
\* same callable behaviour, name, method, ignore list and sampling outcome both
\* take the same decision to record or not, return or raise the same outcome
\* and store the same Measurement record.
C26_AsyncSyncEquivalent == [][C26_SameDecision /\ C26_SameOutcome]_vars

\* a coroutine function that raised was recorded and its record stored
C26_Witness ==
  \E c \in Callers :
    /\ frames[c].is_async /\ frames[c].pc = "done" /\ frames[c].rec
    /\ frames[c].fout = Raise("FuncError") /\ frames[c].push = "ok"
    /\ RowsOf(frames[c].inv) # {}

\* C27: when the invocation of a wrapped coroutine function is cancelled
\* before it completes, no Measurement of that invocation is persisted.
C27_CancelledNotPersisted ==
  \A c \in Callers :
    (frames[c].is_async /\ frames[c].fout = Cancelled) => RowsOf(frames[c].inv) = {}

\* the invocation of caller c has just pushed its Measurement
Pushes(c) == frames[c].pc = "run" /\ frames'[c].pc = "done" /\ frames'[c].push = "ok"

\* the rows the step has added to the stores
NewRows == UNION {rows'[d] \ rows[d] : d \in DBs}

\* what Measurement.stop captures for the invocation of caller c that ends now
Captured(c) ==
  MeasurementStop(frames[c].startedAt, now, frames[c].name, frames[c].method)

C31_PushStep ==
  \A c \in Callers : Pushes(c) =>
    \A r \in NewRows :
      /\ r.elapsed % PersistQuantum = 0
      /\ r.elapsed >= Captured(c).elapsed
      /\ r.elapsed < Captured(c).elapsed + PersistQuantum

\* C31: on every backend the persisted elapsed of a record is the captured
\* elapsed rounded up to 4 decimal places: a multiple of 0.0001, not less than
\* the captured elapsed and less than the captured elapsed plus 0.0001.
C31_ElapsedRoundedUp == [][C31_PushStep]_vars

C34_PushStep ==
  \A c \in Callers : Pushes(c) =>
    \A r \in NewRows :
      /\ r.startedAt = Captured(c).startedAt
      /\ r.endedAt = Captured(c).endedAt
      /\ r.startedAt <= r.endedAt
      /\ r.endedAt - r.startedAt - r.elapsed < PersistQuantum
      /\ r.elapsed - (r.endedAt - r.startedAt) < PersistQuantum

\* C34: for every stored record on every backend the persisted startedAt and
\* endedAt are the captured wall-clock values, fractional seconds kept, so
\* that startedAt <= endedAt and endedAt - startedAt agrees with the persisted
\* elapsed up to the rounding precision.
C34_TimesAsCaptured == [][C34_PushStep]_vars

\* C33: when the external sampler returns a non-null profiling blob for a
\* measured invocation, the Measurement pushed to storage carries it and the
\* stored record's profileStats equals that blob; a stored profileStats is null
\* only when no blob was captured.
C33_ProfileStatsStored ==
  QueryDone("insert") =>
    /\ query.profile_stats # PyNone =>
          /\ MeasurementJson(query).profile_stats = query.profile_stats
          /\ query.out.profileStats = query.profile_stats
    /\ query.out.profileStats = PyNone => query.profile_stats = PyNone

\* the view function carries the _flask_profiler_wrapped mark
Wrapped(vf) == vf.kind \in {"http", "profile"}

\* whether an invocation that state sid sees under name n, with a sampling
\* function saying b, is to be recorded
ToRecord(sid, n, b) ==
  LET conf == states[sid].conf
  IN  /\ states[sid].enabled
      /\ ~Ignored(n, conf)
      /\ conf.sampling = "absent" \/ (conf.sampling = "callable" /\ b)

\* a request to an endpoint of an application with an enabled profiler goes
\* through the recorder exactly when its view function is wrapped, under the
\* route rule and the request method
C32_Dispatch ==
  \A c \in Callers, a \in Apps, e \in Endpoints, b \in BOOLEAN :
    ( /\ ninv' = ninv + 1 /\ frames'[c] # frames[c]
      /\ frames'[c].via # "measure" /\ frames'[c].name = Rule(e)
      /\ extensions[a] # NoState /\ states[extensions[a]].enabled
      /\ Request(c, a, e, "GET", b, FALSE) )
    => LET vf == view_functions[a][e]
           g == frames'[c]
       IN  IF Wrapped(vf)
             THEN /\ g.via \in {"http", "profile"}
                  /\ g.sid # NoState
                  /\ g.name = Rule(e) /\ g.method = "GET"
                  /\ g.rec <=> ToRecord(g.sid, g.name, b)
             ELSE g.via = "plain" /\ ~g.rec

\* init_app of an enabled profiler leaves every registered endpoint of its
\* application wrapped, and the already wrapped ones as they were
C32_InitWraps ==
  (InitSucceeds /\ states'[Len(states')].enabled) =>
    LET a == states'[Len(states')].app
    IN  \A e \in Endpoints :
          /\ view_functions[a][e].kind # "absent" => Wrapped(view_functions'[a][e])
          /\ Wrapped(view_functions[a][e]) =>
                view_functions'[a][e] = view_functions[a][e]

\* a recorded request has one Measurement, an unwrapped one none, and the
\* wrapper put around a wrapped view function is that view function
C32_OnePerRequest ==
  /\ \A c \in Callers :
       LET f == frames[c]
       IN  /\ Cardinality(RowsOf(f.inv)) <= 1
           /\ f.via = "plain" => RowsOf(f.inv) = {}
           /\ ( /\ f.via \in {"http", "profile"} /\ f.pc = "done"
                /\ f.push # "failed" )
              => IF f.rec THEN OneRowOf(f) ELSE RowsOf(f.inv) = {}
  /\ \A sid \in DOMAIN states, a \in Apps, e \in Endpoints :
       Wrapped(view_functions[a][e]) =>
         WrapHttpEndpoint(sid, view_functions[a][e]) = view_functions[a][e]

Reinitialized(a) == Cardinality(StatesOf(a)) > 1

\* a recorded request to a tracked endpoint of a reinitialized application is
\* pushed by the instance registered for the application, whose collection is
\* the handle the collection proxy reads
C35_RequestStep ==
  \A c \in Callers, a \in Apps, e \in Endpoints, b \in BOOLEAN :
    ( /\ Request(c, a, e, "GET", b, FALSE)
      /\ Reinitialized(a)
      /\ Wrapped(view_functions[a][e])
      /\ frames'[c].rec )
    => /\ frames'[c].sid = extensions[a]
       /\ states[frames'[c].sid].collection = CollectionProxy(a)

\* no invocation has more than one row
C35_AtMostOnce == \A c \in Callers : Cardinality(RowsOf(frames[c].inv)) <= 1

\* C35: after init_app has been called more than once on the same
\* application, each request to one of its tracked endpoints is recorded
\* exactly once, through the storage handle of the instance currently
\* registered for that application.
C35_ReinitRecordsInCurrent == []C35_AtMostOnce /\ [][C35_RequestStep]_vars

\* a name resolved in the context of an application without an instance
\* resolves to no instance: the collection proxy reads no other
\* application's storage
C36_ProxyOwnOnly ==
  \A a \in Apps : extensions[a] = NoState => ResolveState(a) = NoState

\* a request to a profile()-decorated endpoint of an application without an
\* instance, or a call of a measure wrapper in its context, goes through no
\* instance, so that it can push to no other application's storage
C36_CallStep ==
  /\ \A c \in Callers, a \in Apps, e \in Endpoints, b \in BOOLEAN :
       ( /\ Request(c, a, e, "GET", b, FALSE)
         /\ extensions[a] = NoState
         /\ view_functions[a][e].kind = "profile" )
       => frames'[c].sid = NoState /\ ~frames'[c].rec
  /\ \A c \in Callers, a \in Apps, n \in Names, b \in BOOLEAN :
       (CallMeasured(c, a, n, "call", b, FALSE) /\ extensions[a] = NoState)
       => frames'[c].sid = NoState /\ ~frames'[c].rec

\* C36: a call made in the context of an application for which no profiler
\* instance was initialized, through a profile()-decorated endpoint, measure
\* or the collection proxy, never adds a record to, or reads from, the storage
\* of another application's instance, also when another application was
\* initialized last.
C36_NoForeignStorage ==
  []C36_ProxyOwnOnly /\ [][C36_CallStep]_vars

====
